---- MODULE Spec2Model ----
(***************************************************************************)
(* A model of the wasm-vm host (package host): the top-level entry points  *)
(* RunSmartContractCall / RunSmartContractCreate with their execution      *)
(* task, watchdog and panic recovery (arwen/host/arwen.go), the host's     *)
(* execution mutex with GasScheduleChange and Close, and the nested        *)
(* synchronous call machinery of execution.go.                             *)
(***************************************************************************)
EXTENDS Integers, Sequences, FiniteSets, TLC

(***************************************************************************)
(* Part I: top-level calls, one goroutine pair (caller + execution task)   *)
(* per call.                                                               *)
(***************************************************************************)

\* Host instances built by NewArwenVM, and the goroutines that call into them.
Hosts == {"h1", "h2"}
Callers == {"c1", "c2"}

\* Gas schedules handed to GasScheduleChange; "bad" is one that
\* config.CreateGasConfig rejects.
ValidSchedules == {"g1", "g2"}
Schedules == ValidSchedules \cup {"bad"}

ErrNil == "nil"
ErrVMIsClosing == "ErrVMIsClosing"
ErrExecutionPanicked == "ErrExecutionPanicked"
ErrExecutionFailedWithTimeout == "ErrExecutionFailedWithTimeout"

VARIABLES
    hostOf,          \* caller -> the host it calls into (fixed)
    pc,              \* caller -> position of the calling goroutine in RunSmartContract...
    task,            \* caller -> position of the execution goroutine (go func)
    timer,           \* caller -> state of ctx.Done() of context.WithTimeout
    branch,          \* caller -> the case the select statement took
    err,             \* caller -> the named result err
    vmOutput,        \* caller -> return code of the named result vmOutput ("nil" when unset)
    panicked,        \* caller -> whether/when the execution body panicked
    failCalled,      \* caller -> whether/when FailExecution was invoked by this call
    cleaned,         \* caller -> whether this call invoked Runtime().CleanInstance()
    admin,           \* host -> holder of the write lock of mutExecution
    closingInstance, \* host -> vmHost.closingInstance
    gasSchedule,     \* host -> the gas schedule of the metering context and the executor
    breakpoint,      \* host -> breakpoint register of the runtime context
    instance         \* host -> the running instance of the runtime context

hostVars == <<hostOf, pc, task, timer, branch, err, vmOutput, panicked, failCalled,
              cleaned, admin, closingInstance, gasSchedule, breakpoint, instance>>

(***************************************************************************)
(* Part II state: one host executing one top-level call with its nested    *)
(* synchronous calls (execution.go).                                       *)
(***************************************************************************)

\* Bounds of the model.
MaxGas == 2       \* largest gas amount a caller or a guest names
MaxValue == 1     \* largest call value / transferred value
MaxDepth == 1     \* deepest nesting of ExecuteOnDestContext

\* Smart contract accounts of this shard, and "x": the external caller,
\* which is also the cross-shard destination of outgoing transfers.
Addresses == {"a", "b"}
Accounts == Addresses \cup {"x"}

\* Instances of the executor; the runtime context points at one of them.
InstanceIds == 0 .. MaxDepth + 1

VARIABLES
    contexts,   \* host.GetContexts(): output, metering and runtime context with
                \* their state stacks, and the points used by each instance
    calls,      \* the Go call stack of doRunSmartContractCall/ExecuteOnDestContext:
                \* per call its input and the contexts as they were at its entry
    lastCall,   \* what the last returned ExecuteOnDestContext did (history)
    vmOut       \* input and VMOutput of the last finished top-level call

execVars == <<contexts, calls, lastCall, vmOut>>

(***************************************************************************)
(* Part III: state of the contract upgrade (execution.go).                 *)
(***************************************************************************)

MaxCode == 2      \* bound: number of code versions an account goes through

ErrNilContract == "ErrNilContract"
ErrUpgradeNotAllowed == "ErrUpgradeNotAllowed"
ErrGetUserAccount == "GetUserAccount error"
ErrInvalidUpgradeArguments == "ErrInvalidUpgradeArguments"
ErrNotEnoughGas == "ErrNotEnoughGas"
ErrContractInvalid == "ErrContractInvalid"
ErrInitFunction == "init function error"
ErrReturnCodeNotOk == "ErrReturnCodeNotOk"

VARIABLES
    userAccounts,   \* blockchain hook: address -> the account GetUserAccount finds
                    \* (whether it exists, its owner, the upgradeable bit of its
                    \* code metadata, the version of its code)
    lastUpgrade     \* the last upgrade attempt: its input, the account as the
                    \* permission check saw it, the error and the code after it

upgradeVars == <<userAccounts, lastUpgrade>>

NoUpgrade == [path |-> "none"]

\* No account is known, no upgrade was attempted.
InitUpgradeVars ==
    /\ userAccounts = [a \in Addresses |->
                          [exists |-> FALSE, owner |-> "x", upgradeable |-> FALSE, code |-> 0]]
    /\ lastUpgrade = NoUpgrade

(***************************************************************************)
(* Part IV: state of the function-name policy (execution.go).              *)
(***************************************************************************)

InitFunctionName == "init"
CallbackFunctionName == "callBack"
ErrInitFuncCalledInRun == "ErrInitFuncCalledInRun"
ErrCallBackFuncCalledInRun == "ErrCallBackFuncCalledInRun"
ErrInvalidFunction == "ErrInvalidFunction"
ErrFuncNotFound == "ErrFuncNotFound"
ErrNilCallbackFunction == "ErrNilCallbackFunction"

VARIABLES
    exports,        \* the functions the module of the called contract exports
    lastInvoke      \* the last attempt to run an exported function: the path,
                    \* the input, the error, whether the function body ran

functionVars == <<exports, lastInvoke>>

NoInvoke == [path |-> "none"]

InitFunctionVars ==
    /\ exports = {}
    /\ lastInvoke = NoInvoke

(***************************************************************************)
(* Part V: state of the synchronous child calls opened by the hooks        *)
(* executeOnDestContext, executeOnSameContext and executeReadOnly          *)
(* (elrondei.go), and of the mutations a read-only call may attempt.       *)
(***************************************************************************)

MaxSyncDepth == 2   \* bound: deepest nesting of synchronous child calls
Shards == {0, 1}    \* the shards GetShardOfAddress answers with

ErrInvalidCallOnReadOnlyMode == "ErrInvalidCallOnReadOnlyMode"
ErrSyncExecutionNotInSameShard == "ErrSyncExecutionNotInSameShard"
ErrFailedTransfer == "ErrFailedTransfer"
UpgradeFunctionName == "upgradeContract"

VARIABLES
    shardOf,        \* blockchain hook: address -> shard
    readOnly,       \* runtime context: the read-only flag
    syncCalls,      \* the open synchronous child calls, outermost first: the
                    \* hook that opened it, its context address, the flag
                    \* before it, the effects before it
    effects,        \* output context: the kinds of mutation staged so far
                    \* (storage update, output transfer, deployed code) and
                    \* whether each was made inside a read-only call
    lastOp          \* the last hook of the running contract and its outcome

syncVars == <<shardOf, readOnly, syncCalls, effects, lastOp>>

NoOp == [op |-> "none"]

InitSyncVars ==
    /\ shardOf = [a \in Addresses |-> 0]
    /\ readOnly = FALSE
    /\ syncCalls = <<>>
    /\ effects = {}
    /\ lastOp = NoOp

(***************************************************************************)
(* Part VI: state of the instance stack of the runtime context (arwen.go). *)
(***************************************************************************)

MaximumRuntimeInstanceStackSize == 10
ErrMaxInstancesReached == "ErrMaxInstancesReached"

VARIABLES
    instanceStack,  \* runtime context: the contracts whose instances wait for
                    \* a nested call to return, outermost first
    running,        \* the contract whose instance runs, "none" between calls
    executionFailed, \* runtime.FailExecution was called in this execution
    lastStart       \* the last attempt to start the instance of a nested call

stackVars == <<instanceStack, running, executionFailed, lastStart>>

NoStart == [depth |-> 0, err |-> ErrNil]

InitStackVars ==
    /\ instanceStack = <<>>
    /\ running = "none"
    /\ executionFailed = FALSE
    /\ lastStart = NoStart

(***************************************************************************)
(* Part VII: state of the asynchronous calls of one contract call          *)
(* (execution.go, asyncRemote.go).                                         *)
(***************************************************************************)

MaxChildren == 2    \* bound: async calls one contract call registers
Children == 1..MaxChildren

VARIABLES
    asyncContext,   \* the async context of the calling contract: whether its
                    \* calls are of the legacy group, callsCounter, and per
                    \* child its status ("none" when not registered) and
                    \* whether it went to another shard
    persisted,      \* the context is saved in the protected storage
    messages,       \* per child, the cross-shard transfer on its way: the
                    \* call, the callback with its return code, or none
    lastAsync       \* the last step of the async machinery and its outcome

asyncVars == <<asyncContext, persisted, messages, lastAsync>>

NoAsyncContext ==
    [legacy |-> FALSE, callsCounter |-> 0,
     status |-> [c \in Children |-> "none"], cross |-> [c \in Children |-> FALSE]]

NoAsyncStep == [step |-> "none"]

InitAsyncVars ==
    /\ asyncContext = NoAsyncContext
    /\ persisted = FALSE
    /\ messages = [c \in Children |-> "none"]
    /\ lastAsync = NoAsyncStep

(***************************************************************************)
(* Part VIII: state of the hooks that register async calls                 *)
(* (elrondei.go: createAsyncCall, asyncCall, upgradeContract,              *)
(* deleteContract).                                                        *)
(***************************************************************************)

GasBits == 3    \* bound: width of the gas arguments of a hook (int64 in the code)
MaxGasLeft == 3    \* bound: gas left when a hook runs
MaxRegistered == 2    \* bound: async calls one execution registers

BreakpointNone == "None"
BreakpointOutOfGas == "OutOfGas"
BreakpointSignalError == "SignalError"
ErrOnlyOneLegacyAsyncCallAllowed == "only one legacy async call allowed"

VARIABLES
    registeredCalls,    \* the async calls registered in the current execution,
                        \* in order: the hook of each and whether it is legacy
    runtimeBreakpoint,  \* the breakpoint value of the runtime
    lastRegister        \* the last registration hook and its outcome

registerVars == <<registeredCalls, runtimeBreakpoint, lastRegister>>

NoRegister == [hook |-> "none"]

InitRegisterVars ==
    /\ registeredCalls = <<>>
    /\ runtimeBreakpoint = BreakpointNone
    /\ lastRegister = NoRegister

(***************************************************************************)
(* Part IX: state of the deployments (execution.go:                        *)
(* doRunSmartContractCreate, CreateNewContract).                           *)
(***************************************************************************)

MaxNonce == 2    \* bound: nonce of the deploying account
MaxDeployDepth == 1    \* bound: nested calls open around a deployment

VARIABLES
    outputCode,         \* the addresses for which the active output state
                        \* holds deployed code
    outputCodeStack,    \* the state stack of the output context
    deployFrames,       \* the nested calls that are open
    deployerNonce,      \* the nonce of the deploying account
    succeeded,          \* the addresses whose deployment succeeded
    lastDeploy          \* the last deployment and its outcome

deployVars == <<outputCode, outputCodeStack, deployFrames, deployerNonce, succeeded, lastDeploy>>

NoDeploy == [path |-> "none"]

InitDeployVars ==
    /\ outputCode = {}
    /\ outputCodeStack = <<>>
    /\ deployFrames = 0
    /\ deployerNonce = 0
    /\ succeeded = {}
    /\ lastDeploy = NoDeploy

(***************************************************************************)
(* Part X: state of the context state stacks: the managed types context    *)
(* driven through its own operations, and the managed types and blockchain *)
(* contexts around nested calls (execution.go).                            *)
(***************************************************************************)

MaxHandles == 2    \* bound: values one state of the managed types holds
MaxStack == 2    \* bound: states on the stack of the context driven directly
MaxFrames == 2    \* bound: nested calls open at once
MaxEffects == 2    \* bound: changes of the blockchain state in one transaction

BigValues == {100, 200}

ErrNoBigIntUnderThisHandle == "ErrNoBigIntUnderThisHandle"

VARIABLES
    bigIntContext,   \* a managed types context driven through its operations:
                     \* the values of the active state by handle, the state stack
    lastContextOp,   \* the last operation on it, with the context before it
    managedTypes,    \* the managed types context of the host: active values,
                     \* each with the depth of the call that put it, and stack
    blockchain,      \* the blockchain context: the changes made so far (the
                     \* values of its active state) and the stack of snapshots
    openFrames,      \* the nested calls that are open, each with the states of
                     \* the two contexts at its entry
    lastFrame        \* the last nested call that returned, and how

stateStackVars ==
    <<bigIntContext, lastContextOp, managedTypes, blockchain, openFrames, lastFrame>>

EmptyContext == [values |-> <<>>, stateStack |-> <<>>]
NoContextOp == [op |-> "none"]
NoFrame == [step |-> "none"]

InitStateStackVars ==
    /\ bigIntContext = EmptyContext
    /\ lastContextOp = NoContextOp
    /\ managedTypes = EmptyContext
    /\ blockchain = [values |-> {}, stateStack |-> <<>>]
    /\ openFrames = <<>>
    /\ lastFrame = NoFrame

(***************************************************************************)
(* Part XI: state of the hooks on the return data (elrondei.go).           *)
(***************************************************************************)

MaxReturnData == 2    \* bound: items of return data
MaxHookGas == 5    \* bound: gas the hooks on the return data are charged

ReturnItems == {"a", "b"}

VARIABLES
    returnData,      \* output.ReturnData(): the items finished so far
    hookGas,         \* the gas the hooks have used
    hookBreakpoint,  \* the breakpoint a fault of a hook has set
    lastHook         \* the last hook that ran, the hook before it, and the
                     \* return data before it

returnDataVars == <<returnData, hookGas, hookBreakpoint, lastHook>>

NoHook == [hook |-> "none", previous |-> "none", before |-> <<>>]

InitReturnDataVars ==
    /\ returnData = <<>>
    /\ hookGas = 0
    /\ hookBreakpoint = BreakpointNone
    /\ lastHook = NoHook

(***************************************************************************)
(* Part XII: state of the contract deletion (execution.go).                *)
(***************************************************************************)

VARIABLES
    lastDelete       \* the last deleteContract request: its path, its input,
                     \* the account of the target, what the requester was told
                     \* and whether the target is in the deleted accounts of
                     \* the final output

deleteVars == <<lastDelete>>

NoDelete == [path |-> "none"]

InitDeleteVars == lastDelete = NoDelete

(***************************************************************************)
(* Part XIII: state of a host across top-level calls (arwen.go,            *)
(* execution.go).                                                          *)
(***************************************************************************)

MaxTopCalls == 4    \* bound: top-level calls made one after another on the host

VARIABLES
    hostState,       \* what the contexts of the host hold between calls: the
                     \* return data and the errors, each marked with the number
                     \* of the call that left it, and the depth of the state
                     \* stacks
    topCalls,        \* the number of top-level calls made so far
    lastTop          \* the last top-level call: its kind, its number, the
                     \* contexts as its body found them, and its VMOutput

resetVars == <<hostState, topCalls, lastTop>>

CleanState == [returnData |-> {}, errors |-> {}, stackDepth |-> 0]

NoTop == [kind |-> "none"]

InitResetVars ==
    /\ hostState = CleanState
    /\ topCalls = 0
    /\ lastTop = NoTop

(***************************************************************************)
(* Part XIV: the hook transferESDTNFTExecute (elrondei.go and the v1_4     *)
(* hooks).                                                                 *)
(***************************************************************************)

MaxLedger == 4      \* bound: changes of the blockchain state, and entries of the
                    \* output, in one execution

VARIABLES
    tokenLedger,     \* the blockchain state as the hook sees it: the changes
                     \* made so far, in order; a snapshot is a length of it
    esdtOutput,      \* the output under construction of the calling contract:
                     \* what has been recorded in its active state, in order
    esdtBreakpoint,  \* the breakpoint a fault of the hook has set
    lastTransfer     \* the last hook: its result, the blockchain state and the
                     \* output as it found them, and how far it got

esdtVars == <<tokenLedger, esdtOutput, esdtBreakpoint, lastTransfer>>

NoTransfer == [hook |-> "none"]

InitEsdtVars ==
    /\ tokenLedger = <<>>
    /\ esdtOutput = <<>>
    /\ esdtBreakpoint = BreakpointNone
    /\ lastTransfer = NoTransfer

(***************************************************************************)
(* Part XV: the epochs and the caches of instances (arwen.go).             *)
(***************************************************************************)

MaxEpoch == 3       \* bound: epochs confirmed on the host

VARIABLES
    enableEpochs,        \* hostParameters.EnableEpochsHandler: the epoch at
                         \* which each feature flag activates
    activationEpochMap,  \* host.activationEpochMap, as a set of epochs
    confirmedEpoch,      \* the last epoch confirmed
    warmInstanceCache,   \* the instances the runtime context keeps warm, each
                         \* as the set of flags it was prepared under
    compiledCodes,       \* the compiled codes the blockchain context keeps,
                         \* each as the set of flags it was compiled under
    lastEpochStep        \* the last step: an epoch confirmed, or a call and
                         \* the instance it ran on

epochVars == <<enableEpochs, activationEpochMap, confirmedEpoch, warmInstanceCache,
               compiledCodes, lastEpochStep>>

\* The flags whose enable epochs createActivationMap collects.
ActivationFlags ==
    {"CheckExecuteReadOnly", "DisableExecByCaller", "RefactorContext",
     "FixFailExecutionOnError", "ManagedCryptoAPI", "CreateNFTThroughExecByCaller",
     "FixOOGReturnCode", "MultiESDTTransferAsyncCallBack", "RemoveNonUpdatedStorage",
     "StorageAPICostOptimization"}

\* The flags that activate first in the configurations explored.
EarlyFlags == {"CheckExecuteReadOnly", "DisableExecByCaller", "RefactorContext"}

\* map[uint32]struct{}: its nil value holds no epoch.
NilActivationMap == {}

\* NewArwenVM: the fields the composite literal of vmHost sets, and the ones
\* it leaves at their zero value.
NewArwenVM(hostParameters) ==
    [enableEpochsHandler |-> hostParameters, activationEpochMap |-> NilActivationMap]

NoEpochStep == [step |-> "none"]

\* The host built with the early flags activating at one epoch and the others
\* at another one.
EpochVarsOfHost(early, late) ==
    /\ enableEpochs = [flag \in ActivationFlags |->
                           IF flag \in EarlyFlags THEN early ELSE late]
    /\ activationEpochMap = NewArwenVM(enableEpochs).activationEpochMap
    /\ confirmedEpoch = 0
    /\ warmInstanceCache = {}
    /\ compiledCodes = {}
    /\ lastEpochStep = NoEpochStep

InitEpochVars == EpochVarsOfHost(1, 1)

(***************************************************************************)
(* Part XVI: the time locks of storage keys (elrondei.go and the v1_4      *)
(* hooks).                                                                 *)
(***************************************************************************)

TimestampBits == 3  \* bound: width of a lock timestamp (int64 in the code)
MaxLockSteps == 3   \* bound: hooks on the time locks in one execution

VARIABLES
    timeLocks,       \* the protected storage: for each key, the big-endian
                     \* bytes stored under its time lock key, as the natural
                     \* number they spell (no bytes: 0)
    blockTimestamp,  \* the timestamp of the current block
    lockSet,         \* for each key, the timestamp of the last setStorageLock
                     \* that succeeded on it, as a sequence of one element;
                     \* the empty sequence before the first one
    lockSteps,       \* the number of hooks called so far
    lastLock         \* the last hook: its name, its key and its result

lockVars == <<timeLocks, blockTimestamp, lockSet, lockSteps, lastLock>>

LockKeys == {"k1", "k2"}

\* The values of an int64, at the width explored.
Timestamps == (0 - 2^(TimestampBits - 1)) .. (2^(TimestampBits - 1) - 1)

NoLock == [hook |-> "none"]

\* No time lock stored, in a block of the given timestamp.
LockVarsInBlock(timestamp) ==
    /\ timeLocks = [key \in LockKeys |-> 0]
    /\ blockTimestamp = timestamp
    /\ lockSet = [key \in LockKeys |-> <<>>]
    /\ lockSteps = 0
    /\ lastLock = NoLock

InitLockVars == LockVarsInBlock(0)

\* The variables each part leaves alone.
notHost == <<execVars, upgradeVars, functionVars, syncVars, stackVars, asyncVars, registerVars, deployVars, stateStackVars, returnDataVars, deleteVars, resetVars, esdtVars, epochVars, lockVars>>
notExec == <<hostVars, upgradeVars, functionVars, syncVars, stackVars, asyncVars, registerVars, deployVars, stateStackVars, returnDataVars, deleteVars, resetVars, esdtVars, epochVars, lockVars>>
notUpgrade == <<hostVars, execVars, functionVars, syncVars, stackVars, asyncVars, registerVars, deployVars, stateStackVars, returnDataVars, deleteVars, resetVars, esdtVars, epochVars, lockVars>>
notFunction == <<hostVars, execVars, upgradeVars, syncVars, stackVars, asyncVars, registerVars, deployVars, stateStackVars, returnDataVars, deleteVars, resetVars, esdtVars, epochVars, lockVars>>
notSync == <<hostVars, execVars, upgradeVars, functionVars, stackVars, asyncVars, registerVars, deployVars, stateStackVars, returnDataVars, deleteVars, resetVars, esdtVars, epochVars, lockVars>>
notStack == <<hostVars, execVars, upgradeVars, functionVars, syncVars, asyncVars, registerVars, deployVars, stateStackVars, returnDataVars, deleteVars, resetVars, esdtVars, epochVars, lockVars>>
notAsync == <<hostVars, execVars, upgradeVars, functionVars, syncVars, stackVars, registerVars, deployVars, stateStackVars, returnDataVars, deleteVars, resetVars, esdtVars, epochVars, lockVars>>
notRegister == <<hostVars, execVars, upgradeVars, functionVars, syncVars, stackVars, asyncVars, deployVars, stateStackVars, returnDataVars, deleteVars, resetVars, esdtVars, epochVars, lockVars>>
notDeploy == <<hostVars, execVars, upgradeVars, functionVars, syncVars, stackVars, asyncVars, registerVars, stateStackVars, returnDataVars, deleteVars, resetVars, esdtVars, epochVars, lockVars>>
notStateStack == <<hostVars, execVars, upgradeVars, functionVars, syncVars, stackVars, asyncVars, registerVars, deployVars, returnDataVars, deleteVars, resetVars, esdtVars, epochVars, lockVars>>
notReturnData == <<hostVars, execVars, upgradeVars, functionVars, syncVars, stackVars, asyncVars, registerVars, deployVars, stateStackVars, deleteVars, resetVars, esdtVars, epochVars, lockVars>>
notDelete == <<hostVars, execVars, upgradeVars, functionVars, syncVars, stackVars, asyncVars, registerVars, deployVars, stateStackVars, returnDataVars, resetVars, esdtVars, epochVars, lockVars>>
notReset == <<hostVars, execVars, upgradeVars, functionVars, syncVars, stackVars, asyncVars, registerVars, deployVars, stateStackVars, returnDataVars, deleteVars, esdtVars, epochVars, lockVars>>
notEsdt == <<hostVars, execVars, upgradeVars, functionVars, syncVars, stackVars, asyncVars, registerVars, deployVars, stateStackVars, returnDataVars, deleteVars, resetVars, epochVars, lockVars>>
notEpoch == <<hostVars, execVars, upgradeVars, functionVars, syncVars, stackVars, asyncVars, registerVars, deployVars, stateStackVars, returnDataVars, deleteVars, resetVars, esdtVars, lockVars>>
notLock == <<hostVars, execVars, upgradeVars, functionVars, syncVars, stackVars, asyncVars, registerVars, deployVars, stateStackVars, returnDataVars, deleteVars, resetVars, esdtVars, epochVars>>

vars == <<hostVars, execVars, upgradeVars, functionVars, syncVars, stackVars, asyncVars, registerVars, deployVars, stateStackVars, returnDataVars, deleteVars, resetVars, esdtVars, epochVars, lockVars>>

Max(a, b) == IF a > b THEN a ELSE b
Min(a, b) == IF a < b THEN a ELSE b

RECURSIVE SumOver(_, _)
SumOver(f, S) ==
    IF S = {} THEN 0
    ELSE LET a == CHOOSE e \in S : TRUE IN f[a] + SumOver(f, S \ {a})

Last(s) == s[Len(s)]
Front(s) == SubSeq(s, 1, Len(s) - 1)
Range(s) == {s[i] : i \in 1 .. Len(s)}

\* The output transfers of an output state: how many there are and the sum
\* of their gas limits.
NoTransfers == [count |-> 0, gasLimit |-> 0]

\* A fresh output state (output.InitState): no account touched, no transfer,
\* no return data.
EmptyOutput ==
    [balanceDelta |-> [a \in Accounts |-> 0], outputTransfers |-> NoTransfers,
     returnData |-> 0]

NoInput ==
    [callerAddr |-> "x", recipientAddr |-> "a", function |-> "none",
     callType |-> "DirectCall", callValue |-> 0, gasProvided |-> 0]

EmptyMetering == [initialGasProvided |-> 0, gasForExecution |-> 0, gasUsedByAccounts |-> 0]

\* An InitState that would leave the output context of the previous
\* execution in place.
InitStateKeepsOutput(c) ==
    [output |-> c.output, outputStack |-> <<>>,
     metering |-> EmptyMetering, meteringStack |-> <<>>,
     runtime |-> NoInput, runtimeStack |-> <<>>,
     instance |-> 0, instanceStack |-> <<>>,
     points |-> [i \in InstanceIds |-> 0]]
InitState(c) ==
    [output |-> EmptyOutput, outputStack |-> <<>>,
     metering |-> EmptyMetering, meteringStack |-> <<>>,
     runtime |-> NoInput, runtimeStack |-> <<>>,
     instance |-> 0, instanceStack |-> <<>>,
     points |-> [i \in InstanceIds |-> 0]]

NoOutput ==
    [returnCode |-> "none", gasRemaining |-> 0, gasUsed |-> 0,
     balanceDelta |-> EmptyOutput.balanceDelta, outputTransfers |-> NoTransfers,
     returnData |-> 0]

NoCall == [status |-> "none"]

\* The contexts as NewArwenVM leaves them (initContexts), no call running.
InitExecVars ==
    /\ contexts = InitState([output |-> EmptyOutput])
    /\ calls = <<>>
    /\ lastCall = NoCall
    /\ vmOut = [input |-> NoInput, output |-> NoOutput]

\* The state after NewArwenVM on every host; c1 calls into h1, c2 into either host.
InitHostVars ==
    /\ hostOf \in {f \in [Callers -> Hosts] : f["c1"] = "h1"}
    /\ pc = [c \in Callers |-> "idle"]
    /\ task = [c \in Callers |-> "none"]
    /\ timer = [c \in Callers |-> "off"]
    /\ branch = [c \in Callers |-> "none"]
    /\ err = [c \in Callers |-> ErrNil]
    /\ vmOutput = [c \in Callers |-> "nil"]
    /\ panicked = [c \in Callers |-> "no"]
    /\ failCalled = [c \in Callers |-> "no"]
    /\ cleaned = [c \in Callers |-> FALSE]
    /\ admin = [h \in Hosts |-> "idle"]
    /\ closingInstance = [h \in Hosts |-> FALSE]
    /\ gasSchedule = [h \in Hosts |-> "g1"]
    /\ breakpoint = [h \in Hosts |-> "None"]
    /\ instance = [h \in Hosts |-> "nil"]

InitHost ==
    /\ InitHostVars
    /\ InitExecVars
    /\ InitUpgradeVars
    /\ InitFunctionVars
    /\ InitSyncVars
    /\ InitStackVars
    /\ InitAsyncVars
    /\ InitRegisterVars
    /\ InitDeployVars
    /\ InitStateStackVars
    /\ InitReturnDataVars
    /\ InitDeleteVars
    /\ InitResetVars
    /\ InitEsdtVars
    /\ InitEpochVars
    /\ InitLockVars

\* A caller is inside RunSmartContractCall/Create, holding the read lock.
InCall(c) == pc[c] \notin {"idle", "returned"}

\* host.mutExecution: the callers holding it for reading.
Readers(h) == {c \in Callers : hostOf[c] = h /\ InCall(c)}

\* mutExecution.RLock() succeeds unless the lock is held for writing.
CanRLock(h) == admin[h] = "idle"

\* mutExecution.Lock() succeeds when nobody holds the lock.
CanLockNoWait(h) == admin[h] = "idle"
CanLock(h) == admin[h] = "idle" /\ Readers(h) = {}

\* The done channel of a call is closed exactly when its task has run close(done).
DoneClosed(c) == task[c] = "exited"

\* ctx.Done() is closed once the execution timeout has elapsed.
TimerFired(c) == timer[c] \in {"firedRunningParked", "firedRunning", "fired"}

\* `<-done` of the timeout branch: blocks until the task has closed done.
AwaitDoneSkipped(c) == TRUE
AwaitDone(c) == DoneClosed(c)

\* The error the deferred recover() assigns to the named result.
RecoverErrForgotten == ErrNil
RecoverErr == ErrExecutionPanicked

\* The error the timeout branch assigns to the named result.
TimeoutErrForgotten == ErrNil
TimeoutErr == ErrExecutionFailedWithTimeout

\* The host whose runtime context FailExecution of caller c writes
\* (host.Runtime() of the host the call runs on).
OtherHost(h) == CHOOSE g \in Hosts : g # h
FailExecutionSharedRuntime(c) == OtherHost(hostOf[c])
FailExecutionTarget(c) == hostOf[c]

\* RunSmartContractCall / RunSmartContractCreate up to the point where the
\* execution task runs its body: RLock, the closingInstance check,
\* context.WithTimeout, make(chan), the go statement; the task starts with
\* host.InitState() and a fresh running instance.
BeginCall(c) ==
    LET h == hostOf[c] IN
    /\ pc[c] \in {"idle", "returned"}
    /\ CanRLock(h)
    /\ branch' = [branch EXCEPT ![c] = "none"]
    /\ vmOutput' = [vmOutput EXCEPT ![c] = "nil"]
    /\ panicked' = [panicked EXCEPT ![c] = "no"]
    /\ failCalled' = [failCalled EXCEPT ![c] = "no"]
    /\ cleaned' = [cleaned EXCEPT ![c] = FALSE]
    /\ IF closingInstance[h]
       THEN /\ pc' = [pc EXCEPT ![c] = "returned"]
            /\ err' = [err EXCEPT ![c] = ErrVMIsClosing]
            /\ task' = [task EXCEPT ![c] = "none"]
            /\ timer' = [timer EXCEPT ![c] = "off"]
            /\ UNCHANGED <<instance, breakpoint>>
       ELSE /\ pc' = [pc EXCEPT ![c] = "select"]
            /\ err' = [err EXCEPT ![c] = ErrNil]
            /\ task' = [task EXCEPT ![c] = "running"]
            /\ timer' = [timer EXCEPT ![c] = "armed"]
            /\ instance' = [instance EXCEPT ![h] = "live"]
            /\ breakpoint' = [breakpoint EXCEPT ![h] = "None"]
    /\ UNCHANGED <<hostOf, admin, closingInstance, gasSchedule>>
    /\ UNCHANGED notHost

RunSmartContractCall(c) == BeginCall(c)

RunSmartContractCreate(c) == BeginCall(c)

\* The body returns a VMOutput with return code rc; the deferred function of
\* doRunSmartContract... cleans the instance when rc is ExecutionFailed; the
\* deferred function of the task finds recover() nil and closes done, which
\* wakes a caller blocked in the select on the done case.
TaskFinish(c, rc) ==
    LET h == hostOf[c] IN
    /\ task[c] = "running"
    /\ task' = [task EXCEPT ![c] = "exited"]
    /\ vmOutput' = [vmOutput EXCEPT ![c] = rc]
    /\ IF rc = "ExecutionFailed"
       THEN /\ instance' = [instance EXCEPT ![h] = "nil"]
            /\ cleaned' = [cleaned EXCEPT ![c] = TRUE]
       ELSE UNCHANGED <<instance, cleaned>>
    /\ IF pc[c] = "parked"
       THEN /\ pc' = [pc EXCEPT ![c] = "returned"]
            /\ branch' = [branch EXCEPT ![c] = "done"]
       ELSE UNCHANGED <<pc, branch>>
    /\ UNCHANGED <<hostOf, timer, err, panicked, failCalled,
                   admin, closingInstance, gasSchedule, breakpoint>>
    /\ UNCHANGED notHost

\* The body panics (guest code, VM-API hook or blockchain hook).
TaskPanic(c) ==
    /\ task[c] = "running"
    /\ task' = [task EXCEPT ![c] = "panicking"]
    /\ panicked' = [panicked EXCEPT ![c] =
                       IF TimerFired(c) THEN "afterTimeout" ELSE "beforeTimeout"]
    /\ UNCHANGED <<hostOf, pc, timer, branch, err, vmOutput, failCalled, cleaned,
                   admin, closingInstance, gasSchedule, breakpoint, instance>>
    /\ UNCHANGED notHost

\* The deferred function of the task: r := recover(); r != nil, so err is set,
\* the instance cleaned and done closed.
TaskRecover(c) ==
    LET h == hostOf[c] IN
    /\ task[c] = "panicking"
    /\ task' = [task EXCEPT ![c] = "exited"]
    /\ err' = [err EXCEPT ![c] = RecoverErr]
    /\ instance' = [instance EXCEPT ![h] = "nil"]
    /\ cleaned' = [cleaned EXCEPT ![c] = TRUE]
    /\ IF pc[c] = "parked"
       THEN /\ pc' = [pc EXCEPT ![c] = "returned"]
            /\ branch' = [branch EXCEPT ![c] = "done"]
       ELSE UNCHANGED <<pc, branch>>
    /\ UNCHANGED <<hostOf, timer, vmOutput, panicked, failCalled,
                   admin, closingInstance, gasSchedule, breakpoint>>
    /\ UNCHANGED notHost

\* The execution timeout elapses: ctx.Done() is closed; a caller blocked in
\* the select is woken on the timeout case.
TimerFire(c) ==
    /\ timer[c] = "armed"
    /\ pc[c] \in {"select", "parked"}
    /\ timer' = [timer EXCEPT ![c] =
                    IF task[c] # "running" THEN "fired"
                    ELSE IF pc[c] = "parked" THEN "firedRunningParked"
                    ELSE "firedRunning"]
    /\ IF pc[c] = "parked"
       THEN /\ pc' = [pc EXCEPT ![c] = "caseTimeout"]
            /\ branch' = [branch EXCEPT ![c] = "timeout"]
       ELSE UNCHANGED <<pc, branch>>
    /\ UNCHANGED <<hostOf, task, err, vmOutput, panicked, failCalled, cleaned,
                   admin, closingInstance, gasSchedule, breakpoint, instance>>
    /\ UNCHANGED notHost

\* A select whose timeout case can always proceed.
ReadyCasesTimeoutAlways(c) ==
    {b \in {"done"} : DoneClosed(c)} \cup {"timeout"}
\* The cases of the select statement that can proceed.
ReadyCases(c) ==
    {b \in {"done"} : DoneClosed(c)} \cup {b \in {"timeout"} : TimerFired(c)}

\* The caller reaches the select: it takes one of the cases that can proceed
\* (case <-done returns at once), or blocks when none can.
EnterSelect(c) ==
    /\ pc[c] = "select"
    /\ IF ReadyCases(c) = {}
       THEN /\ pc' = [pc EXCEPT ![c] = "parked"]
            /\ UNCHANGED branch
       ELSE \E b \in ReadyCases(c) :
            /\ pc' = [pc EXCEPT ![c] = IF b = "done" THEN "returned" ELSE "caseTimeout"]
            /\ branch' = [branch EXCEPT ![c] = b]
    /\ UNCHANGED <<hostOf, task, timer, err, vmOutput, panicked, failCalled, cleaned,
                   admin, closingInstance, gasSchedule, breakpoint, instance>>
    /\ UNCHANGED notHost

\* case <-ctx.Done(): host.Runtime().FailExecution(ErrExecutionFailedWithTimeout),
\* which records the error and raises the ExecutionFailed breakpoint.
CaseTimeout(c) ==
    /\ pc[c] = "caseTimeout"
    /\ breakpoint' = [breakpoint EXCEPT ![FailExecutionTarget(c)] = "ExecutionFailed"]
    /\ failCalled' = [failCalled EXCEPT ![c] =
                         IF DoneClosed(c) THEN "afterDone" ELSE "beforeDone"]
    /\ pc' = [pc EXCEPT ![c] = "waitDone"]
    /\ UNCHANGED <<hostOf, task, timer, branch, err, vmOutput, panicked, cleaned,
                   admin, closingInstance, gasSchedule, instance>>
    /\ UNCHANGED notHost

\* <-done; err = ErrExecutionFailedWithTimeout; return.
WaitDone(c) ==
    /\ pc[c] = "waitDone"
    /\ AwaitDone(c)
    /\ err' = [err EXCEPT ![c] = TimeoutErr]
    /\ pc' = [pc EXCEPT ![c] = "returned"]
    /\ UNCHANGED <<hostOf, task, timer, branch, vmOutput, panicked, failCalled,
                   cleaned, admin, closingInstance, gasSchedule,
                   breakpoint, instance>>
    /\ UNCHANGED notHost

\* GasScheduleChange: mutExecution.Lock().
GasScheduleChangeLock(h) ==
    /\ CanLock(h)
    /\ admin' = [admin EXCEPT ![h] = "gasSchedule"]
    /\ UNCHANGED <<hostOf, pc, task, timer, branch, err, vmOutput, panicked,
                   failCalled, cleaned, closingInstance, gasSchedule,
                   breakpoint, instance>>
    /\ UNCHANGED notHost

\* GasScheduleChange under the lock: when CreateGasConfig accepts the schedule
\* the executor and the metering context get it; otherwise the function
\* returns early; the deferred Unlock runs on both paths.
GasScheduleChangeApply(h, g) ==
    /\ admin[h] = "gasSchedule"
    /\ gasSchedule' = [gasSchedule EXCEPT ![h] = IF g \in ValidSchedules THEN g ELSE @]
    /\ admin' = [admin EXCEPT ![h] = "idle"]
    /\ UNCHANGED <<hostOf, pc, task, timer, branch, err, vmOutput, panicked,
                   failCalled, cleaned, closingInstance, breakpoint, instance>>
    /\ UNCHANGED notHost

\* Close: mutExecution.Lock().
CloseLock(h) ==
    /\ CanLock(h)
    /\ admin' = [admin EXCEPT ![h] = "close"]
    /\ UNCHANGED <<hostOf, pc, task, timer, branch, err, vmOutput, panicked,
                   failCalled, cleaned, closingInstance, gasSchedule,
                   breakpoint, instance>>
    /\ UNCHANGED notHost

\* Close under the lock: host.close() clears the warm instance cache,
\* closingInstance is set, Unlock.
CloseApply(h) ==
    /\ admin[h] = "close"
    /\ closingInstance' = [closingInstance EXCEPT ![h] = TRUE]
    /\ admin' = [admin EXCEPT ![h] = "idle"]
    /\ UNCHANGED <<hostOf, pc, task, timer, branch, err, vmOutput, panicked,
                   failCalled, cleaned, gasSchedule, breakpoint, instance>>
    /\ UNCHANGED notHost

NextHost ==
    \/ \E c \in Callers : RunSmartContractCall(c)
    \/ \E c \in Callers : RunSmartContractCreate(c)
    \/ \E c \in Callers, rc \in {"Ok", "ExecutionFailed"} : TaskFinish(c, rc)
    \/ \E c \in Callers : TaskPanic(c)
    \/ \E c \in Callers : TaskRecover(c)
    \/ \E c \in Callers : TimerFire(c)
    \/ \E c \in Callers : EnterSelect(c)
    \/ \E c \in Callers : CaseTimeout(c)
    \/ \E c \in Callers : WaitDone(c)
    \/ \E h \in Hosts : GasScheduleChangeLock(h)
    \/ \E h \in Hosts, g \in Schedules : GasScheduleChangeApply(h, g)
    \/ \E h \in Hosts : CloseLock(h)
    \/ \E h \in Hosts : CloseApply(h)

SpecHost == InitHost /\ [][NextHost]_vars

(***************************************************************************)
(* Part II: the contexts (package contexts), as their component design    *)
(* describes them and as execution.go uses them.                           *)
(***************************************************************************)

\* metering.GasLeft(): the gas of the active metering state that the active
\* instance has not used.
GasLeft(c) == Max(0, c.metering.gasForExecution - c.points[c.instance])

\* metering.UseGas(gas): unconditional charge on the active instance.
UseGas(c, gas) == [c EXCEPT !.points[c.instance] = @ + gas]

\* metering.RestoreGas(gas): returns unused gas to the active instance.
RestoreGas(c, gas) == [c EXCEPT !.points[c.instance] = Max(0, @ - gas)]

\* metering.BoundGasLimit(n) = min(n, GasLeft()).
BoundGasLimit(c, n) == Min(n, GasLeft(c))

\* metering.InitStateFromContractCallInput(&input.VMInput)
MeteringInitStateFromContractCallInput(c, input) ==
    [c EXCEPT !.metering = [initialGasProvided |-> input.gasProvided,
                            gasForExecution |-> input.gasProvided,
                            gasUsedByAccounts |-> 0]]

\* metering.DeductInitialGasForExecution(contract): the one-time cost of the
\* bytecode is taken out of the gas for execution.
DeductInitialGasForExecution(c, cost) ==
    [c EXCEPT !.metering.gasForExecution = @ - cost]

\* metering.GasSpentByContract(): what the running contract itself spent.
GasSpentByContract(c) ==
    Min(c.points[c.instance], c.metering.gasForExecution)
      + (c.metering.initialGasProvided - c.metering.gasForExecution)

MeteringPushState(c) == [c EXCEPT !.meteringStack = Append(@, c.metering)]

MeteringPopSetActiveState(c) ==
    IF c.meteringStack = <<>> THEN c
    ELSE [c EXCEPT !.metering = Last(c.meteringStack),
                   !.meteringStack = Front(c.meteringStack)]

\* On merge the gas used in the child frame is summed into the parent's.
MeteringPopMergeActiveState(c) ==
    IF c.meteringStack = <<>> THEN c
    ELSE [c EXCEPT !.metering =
                       [Last(c.meteringStack) EXCEPT !.gasUsedByAccounts =
                           @ + c.metering.gasUsedByAccounts + GasSpentByContract(c)],
                   !.meteringStack = Front(c.meteringStack)]

\* output.PushState(): a copy of the active state goes onto the stack, the
\* active state stays in use.
OutputPushState(c) == [c EXCEPT !.outputStack = Append(@, c.output)]

\* output.CensorVMOutput(): the callee does not see the caller's return data.
CensorVMOutput(c) == [c EXCEPT !.output.returnData = 0]

OutputPopSetActiveState(c) ==
    IF c.outputStack = <<>> THEN c
    ELSE [c EXCEPT !.output = Last(c.outputStack),
                   !.outputStack = Front(c.outputStack)]

\* On merge the accounts and transfers of the child are carried into the
\* parent and the child's return data is appended to the parent's.
OutputPopMergeActiveState(c) ==
    IF c.outputStack = <<>> THEN c
    ELSE [c EXCEPT !.output =
                       [balanceDelta |-> c.output.balanceDelta,
                        outputTransfers |-> c.output.outputTransfers,
                        returnData |-> Last(c.outputStack).returnData + c.output.returnData],
                   !.outputStack = Front(c.outputStack)]

\* output.PopDiscard(): the saved state is dropped, the active one stays.
OutputPopDiscard(c) ==
    IF c.outputStack = <<>> THEN c
    ELSE [c EXCEPT !.outputStack = Front(c.outputStack)]

\* output.AddTxValueToAccount(address, value): credits the account.
AddTxValueToAccount(c, address, value) ==
    [c EXCEPT !.output.balanceDelta[address] = @ + value]

\* output.TransferValueOnly(dest, sender, value, checkPayable): debits the
\* sender and credits the destination.
TransferValueOnly(c, dest, sender, value) ==
    [c EXCEPT !.output.balanceDelta =
                  [[@ EXCEPT ![sender] = @ - value] EXCEPT ![dest] = @ + value]]

\* output.Transfer(dest, sender, gasLimit, gasLocked, value, ...): as
\* TransferValueOnly, and records the outgoing transfer with its gas limit.
Transfer(c, dest, sender, gasLimit, value) ==
    [TransferValueOnly(c, dest, sender, value)
        EXCEPT !.output.outputTransfers =
                   [count |-> @.count + 1, gasLimit |-> @.gasLimit + gasLimit]]

\* output.AddToActiveState(builtinOutput): the transfers of the builtin
\* function's output are added to the active state.
AddToActiveState(c, builtinTransfers) ==
    [c EXCEPT !.output.outputTransfers =
                  [count |-> @.count + builtinTransfers.count,
                   gasLimit |-> @.gasLimit + builtinTransfers.gasLimit]]

\* output.CreateVMOutputInCaseOfError(err): only code and message survive.
CreateVMOutputInCaseOfError == [NoOutput EXCEPT !.returnCode = "ExecutionFailed"]

\* output.GetVMOutput(): the active output state with the gas left; the gas
\* used is what remains of the gas provided after the gas left and the gas
\* attached to transfers (unsigned subtraction).
GetVMOutput(c) ==
    LET remaining == GasLeft(c)
        forwarded == c.output.outputTransfers.gasLimit IN
    [returnCode |-> "Ok", gasRemaining |-> remaining,
     gasUsed |-> Max(0, c.metering.initialGasProvided - remaining - forwarded),
     balanceDelta |-> c.output.balanceDelta,
     outputTransfers |-> c.output.outputTransfers,
     returnData |-> c.output.returnData]

\* runtime.PushState(): the runtime state and the (pointer to the) running
\* instance go onto their stacks.
RuntimePushState(c) ==
    [c EXCEPT !.runtimeStack = Append(@, c.runtime),
              !.instanceStack = Append(@, c.instance)]

\* runtime.InitStateFromContractCallInput(input)
RuntimeInitStateFromContractCallInput(c, input) == [c EXCEPT !.runtime = input]

\* runtime.StartWasmerInstance(...): a new instance becomes the running one.
FreshInstance(c) ==
    CHOOSE i \in InstanceIds : i # c.instance /\ i \notin Range(c.instanceStack)
StartWasmerInstance(c) ==
    LET i == FreshInstance(c) IN [c EXCEPT !.instance = i, !.points[i] = 0]

\* runtime.PopSetActiveState(): back to the caller's runtime state and
\* instance; an instance nothing points at any more is dropped.
RuntimePopSetActiveState(c) ==
    IF c.runtimeStack = <<>> THEN c
    ELSE LET prev == Last(c.instanceStack)
             rest == Front(c.instanceStack)
             dropped == c.instance # prev /\ c.instance \notin Range(rest) IN
         [c EXCEPT !.runtime = Last(c.runtimeStack),
                   !.runtimeStack = Front(c.runtimeStack),
                   !.instance = prev,
                   !.instanceStack = rest,
                   !.points[c.instance] = IF dropped THEN 0 ELSE @]

(***************************************************************************)
(* Part II: execution.go.                                                  *)
(***************************************************************************)

CallTypes == {"DirectCall", "AsynchronousCall", "AsynchronousCallBack"}

\* The part of the contexts that a nested call must merge or restore, and the
\* depths of the runtime and instance stacks.
Snapshot(c) ==
    [output |-> c.output, outputStack |-> c.outputStack,
     metering |-> c.metering, meteringStack |-> c.meteringStack,
     runtimeDepth |-> Len(c.runtimeStack), instanceDepth |-> Len(c.instanceStack)]

\* The guest reaches a VM-API hook only while the instance has gas left: the
\* metering check at the start of the basic block of the hook has passed
\* (every hook below stands for one basic block and costs one unit of gas).
Running(c) == GasLeft(c) > 0

\* checkFinalGasAfterExit: no error iff the points used do not exceed the gas
\* for execution.
checkFinalGasAfterExit(c) == c.points[c.instance] <= c.metering.gasForExecution

\* finishExecuteOnDestContext(executeErr): the VMOutput of the child, the
\* pops of the metering, output and runtime states, and the gas handed back.
finishExecuteOnDestContext(c, executeErr, asyncComplete, saveOk) ==
    LET out == IF executeErr \/ (~asyncComplete /\ ~saveOk)
                    THEN CreateVMOutputInCaseOfError
                    ELSE GetVMOutput(c)
        popped == IF out.returnCode = "Ok"
                  THEN OutputPopMergeActiveState(MeteringPopMergeActiveState(c))
                  ELSE OutputPopSetActiveState(MeteringPopSetActiveState(c))
        isAsyncCall == c.runtime.callType = "AsynchronousCall"
        back == RuntimePopSetActiveState(popped) IN
    [contexts |-> IF ~isAsyncCall \/ asyncComplete
                  THEN RestoreGas(back, out.gasRemaining)
                  ELSE back,
     vmOutput |-> out]

\* executeOnDestContextNoBuiltinFunction together with execute(), up to the
\* point where the callee's code starts to run or the call is over.  `stop`
\* names the step that fails ("none": no step does), `cost` the initial gas
\* cost of the callee's bytecode.  The result tells whether the callee runs
\* ("running"), the deferred finishExecuteOnDestContext is due ("finish",
\* with the error of the body) or the function has returned without it
\* ("returned").
executeOnDestContextNoBuiltinFunction(c, input, stop, cost) ==
    LET p1 == RuntimeInitStateFromContractCallInput(
                  RuntimePushState(CensorVMOutput(OutputPushState(c))), input)
        p2 == MeteringInitStateFromContractCallInput(MeteringPushState(p1), input)
        doTransfer == input.callType # "AsynchronousCallBack" \/ input.callValue = 0
        p3 == IF doTransfer
              THEN TransferValueOnly(p2, input.recipientAddr, input.callerAddr, input.callValue)
              ELSE p2
        p4 == UseGas(p3, input.gasProvided)
        p5 == StartWasmerInstance(DeductInitialGasForExecution(p4, cost)) IN
    IF stop = "asyncInit" THEN [state |-> "returned", contexts |-> p1, err |-> TRUE]
    ELSE IF stop = "transfer" /\ doTransfer THEN [state |-> "finish", contexts |-> p2, err |-> TRUE]
    ELSE IF stop = "initFunc" THEN [state |-> "finish", contexts |-> p3, err |-> TRUE]
    ELSE IF input.function = "deleteContract" THEN [state |-> "finish", contexts |-> p4, err |-> FALSE]
    ELSE IF stop = "code" \/ cost > input.gasProvided
         THEN [state |-> "finish", contexts |-> p4, err |-> TRUE]
    ELSE [state |-> "running", contexts |-> p5, err |-> FALSE]

\* The history record of a returned ExecuteOnDestContext: the parent's
\* output and metering state at entry and after the return, the gas the call
\* was given, the VMOutput it returned, and the parent's gas left at entry
\* (`gasLeft`) and after the return.
CallRecord(gasProvided, gasLeft, before, after, out) ==
    [status |-> IF out.returnCode = "Ok" THEN "ok" ELSE "failed",
     gasProvided |-> IF out.returnCode = "Ok" THEN gasProvided ELSE 0,
     vmOutput |-> out, before |-> before, after |-> Snapshot(after),
     gas |-> [before |-> gasLeft, provided |-> gasProvided, after |-> GasLeft(after)]]

\* doRunSmartContractCall up to callSCMethod: InitState, the runtime, async
\* and metering states are set from the input, the call value is credited to
\* the recipient, the code is fetched, its initial cost deducted and the
\* instance started.  A failing step ends the call with the error output.
doRunSmartContractCall(recipient, value, gas, callType, stop, cost) ==
    /\ calls = <<>>
    /\ cost <= gas
    /\ LET input == [callerAddr |-> "x", recipientAddr |-> recipient,
                     function |-> "call", callType |-> callType,
                     callValue |-> value, gasProvided |-> gas]
           c1 == RuntimeInitStateFromContractCallInput(InitState(contexts), input)
           c2 == AddTxValueToAccount(
                     MeteringInitStateFromContractCallInput(c1, input), recipient, value)
           c3 == StartWasmerInstance(DeductInitialGasForExecution(c2, cost)) IN
       IF stop = "asyncInit"
       THEN /\ contexts' = c1
            /\ vmOut' = [input |-> input, output |-> CreateVMOutputInCaseOfError]
            /\ calls' = <<>>
       ELSE IF stop = "code"
       THEN /\ contexts' = c2
            /\ vmOut' = [input |-> input, output |-> CreateVMOutputInCaseOfError]
            /\ calls' = <<>>
       ELSE /\ contexts' = c3
            /\ vmOut' = [input |-> input, output |-> NoOutput]
            /\ calls' = <<[function |-> input.function, gasProvided |-> gas,
                           before |-> Snapshot(c3), gasLeft |-> 0, mode |-> "top"]>>
    /\ lastCall' = NoCall
    /\ UNCHANGED notExec

\* VM-API hook finish: charges its cost, appends to the return data.
Finish ==
    /\ calls # <<>>
    /\ Running(contexts)
    /\ contexts' = [UseGas(contexts, 1) EXCEPT !.output.returnData = @ + 1]
    /\ lastCall' = NoCall
    /\ UNCHANGED <<calls, vmOut>>
    /\ UNCHANGED notExec

\* VM-API hook transferValue: charges its cost, output.Transfer without gas.
TransferValue(dest, value) ==
    /\ calls # <<>>
    /\ Running(contexts)
    /\ contexts' = Transfer(UseGas(contexts, 1), dest,
                            contexts.runtime.recipientAddr, 0, value)
    /\ lastCall' = NoCall
    /\ UNCHANGED <<calls, vmOut>>
    /\ UNCHANGED notExec

\* VM-API hook transferValueExecute towards another shard: charges its cost
\* and the gas limit the guest names, output.Transfer with that gas limit.
TransferValueExecuteWithTypedArgs(dest, value, gasLimit) ==
    /\ calls # <<>>
    /\ Running(contexts)
    /\ contexts' = Transfer(UseGas(UseGas(contexts, 1), gasLimit), dest,
                            contexts.runtime.recipientAddr, gasLimit, value)
    /\ lastCall' = NoCall
    /\ UNCHANGED <<calls, vmOut>>
    /\ UNCHANGED notExec

\* The pairs (function, call type) of nested contract calls: ordinary calls
\* of any call type, indirect upgrade and delete.
NestedKinds ==
    ({"call"} \X CallTypes) \cup ({"upgradeContract", "deleteContract"} \X {"DirectCall"})

\* The steps of a nested call that can fail, given its input.
Stops(kind, value) ==
    {"asyncInit", "code", "none"}
      \cup {s \in {"transfer"} : value > 0 /\ kind[2] # "AsynchronousCallBack"}
      \cup {s \in {"initFunc"} : kind[1] = "call"}

\* ExecuteOnDestContext from `if scExecutionInput != nil` on: c0 is the state
\* at entry, c the state after the builtin function stage.
executeOnDestContext(c0, c, input, stop) ==
    LET before == Snapshot(c0)
        r == executeOnDestContextNoBuiltinFunction(c, input, stop, 0) IN
    IF r.state = "running"
    THEN /\ contexts' = r.contexts
         /\ calls' = Append(calls, [function |-> input.function,
                                    gasProvided |-> input.gasProvided,
                                    before |-> before, gasLeft |-> GasLeft(c),
                                    mode |-> "dest"])
         /\ lastCall' = NoCall
    ELSE IF r.state = "returned"
    THEN /\ contexts' = r.contexts
         /\ lastCall' = CallRecord(input.gasProvided, GasLeft(c), before, r.contexts,
                                   CreateVMOutputInCaseOfError)
         /\ UNCHANGED calls
    ELSE \E asyncComplete \in BOOLEAN :
         \E saveOk \in {b \in BOOLEAN : b \/ (~asyncComplete /\ ~r.err)} :
         LET f == finishExecuteOnDestContext(r.contexts, r.err, asyncComplete, saveOk) IN
         /\ contexts' = f.contexts
         /\ lastCall' = CallRecord(input.gasProvided, GasLeft(c), before,
                                   f.contexts, f.vmOutput)
         /\ UNCHANGED calls

\* ExecuteOnDestContext of a contract function, entered from a VM-API hook
\* (which charges its cost and bounds the gas by BoundGasLimit) or from the
\* async context.
ExecuteOnDestContext(dest, value, gasLimit, kind, stop) ==
    /\ calls # <<>>
    /\ Len(calls) <= MaxDepth
    /\ Running(contexts)
    /\ LET c0 == UseGas(contexts, 1)
           input == [callerAddr |-> contexts.runtime.recipientAddr,
                     recipientAddr |-> dest, function |-> kind[1],
                     callType |-> kind[2], callValue |-> value,
                     gasProvided |-> BoundGasLimit(c0, gasLimit)] IN
       /\ gasLimit = input.gasProvided
       /\ executeOnDestContext(c0, c0, input, stop)
    /\ UNCHANGED vmOut
    /\ UNCHANGED notExec

\* ExecuteOnDestContext of a builtin function.  `builtin` tells what the
\* blockchain hook answers: an error, an output without a contract call, or
\* an output asking for a contract call with `innerGas` of the gas.
\* handleBuiltinFunctionCall charges the gas the builtin function used and
\* adds its output (a transfer record without gas) to the active output
\* state.
ExecuteOnDestContextBuiltin(dest, gasLimit, builtin, innerGas, stop) ==
    /\ calls # <<>>
    /\ Len(calls) <= MaxDepth
    /\ Running(contexts)
    /\ LET c0 == UseGas(contexts, 1)
           input == [callerAddr |-> contexts.runtime.recipientAddr,
                     recipientAddr |-> dest, function |-> "builtin",
                     callType |-> "DirectCall", callValue |-> 0,
                     gasProvided |-> BoundGasLimit(c0, gasLimit)]
           before == Snapshot(c0)
           c1 == AddToActiveState(UseGas(c0, input.gasProvided - innerGas),
                                  [count |-> 1, gasLimit |-> 0])
           scExecutionInput == [input EXCEPT !.function = "call", !.gasProvided = innerGas] IN
       /\ gasLimit = input.gasProvided
       /\ innerGas <= input.gasProvided
       /\ IF builtin = "err"
          THEN LET c2 == UseGas(c0, input.gasProvided) IN
               /\ innerGas = 0 /\ stop = "none"
               /\ contexts' = c2
               /\ lastCall' = CallRecord(input.gasProvided, GasLeft(c0), before, c2,
                                         CreateVMOutputInCaseOfError)
               /\ UNCHANGED calls
          ELSE IF builtin = "noCall"
          THEN /\ stop = "none"
               /\ contexts' = c1
               /\ lastCall' = [CallRecord(input.gasProvided, GasLeft(c0), before, c1,
                                          [NoOutput EXCEPT !.returnCode = "Ok",
                                                           !.gasRemaining = innerGas])
                                  EXCEPT !.status = "builtin"]
               /\ UNCHANGED calls
          ELSE executeOnDestContext(c0, c1, scExecutionInput, stop)
    /\ UNCHANGED vmOut
    /\ UNCHANGED notExec

\* finishExecuteOnSameContext(executeErr): with a return code other than Ok
\* or an error the states are restored and nothing is handed back; otherwise
\* the metering state is merged, the output kept and the gas left restored
\* to the caller's instance.
finishExecuteOnSameContext(c, executeErr, returnCodeOk) ==
    IF ~returnCodeOk \/ executeErr
    THEN [contexts |-> RuntimePopSetActiveState(
                           OutputPopSetActiveState(MeteringPopSetActiveState(c))),
          restored |-> FALSE, gasRemaining |-> 0]
    ELSE LET out == GetVMOutput(c) IN
         [contexts |-> RestoreGas(
                           RuntimePopSetActiveState(
                               OutputPopDiscard(MeteringPopMergeActiveState(c))),
                           out.gasRemaining),
          restored |-> TRUE, gasRemaining |-> out.gasRemaining]

\* The history record of a returned ExecuteOnSameContext; `returnedErr`
\* tells whether it returned an error.
SameContextRecord(gasProvided, gasLeft, before, f, returnedErr) ==
    [status |-> IF f.restored THEN "sameOk" ELSE "sameFailed",
     returnedErr |-> returnedErr,
     gasProvided |-> 0,
     vmOutput |-> [NoOutput EXCEPT !.gasRemaining = f.gasRemaining],
     before |-> before, after |-> Snapshot(f.contexts),
     gas |-> [before |-> gasLeft, provided |-> gasProvided,
              after |-> GasLeft(f.contexts)]]

\* VM-API hook executeOnSameContext -> host.ExecuteOnSameContext, up to the
\* point where the library code starts to run or the call is over.  The
\* deferred finishExecuteOnSameContext(err) has its argument evaluated when
\* the defer statement executes, while err is still nil: it sees a failure
\* only through the return code of the output (`returnCodeOk`).  `refactor`
\* is IsRefactorContextFlagEnabled().
ExecuteOnSameContext(dest, value, gasLimit, refactor, stop, returnCodeOk) ==
    /\ calls # <<>>
    /\ Len(calls) <= MaxDepth
    /\ Running(contexts)
    /\ LET c0 == UseGas(contexts, 1)
           caller == contexts.runtime.recipientAddr
           input == [callerAddr |-> caller,
                     recipientAddr |-> IF refactor THEN caller ELSE dest,
                     function |-> "call", callType |-> "DirectCall",
                     callValue |-> value,
                     gasProvided |-> BoundGasLimit(c0, gasLimit)]
           before == Snapshot(c0)
           p1 == RuntimeInitStateFromContractCallInput(
                     RuntimePushState(OutputPushState(c0)), input)
           p2 == MeteringInitStateFromContractCallInput(MeteringPushState(p1), input)
           p3 == TransferValueOnly(p2, input.recipientAddr, input.callerAddr,
                                   input.callValue)
           p4 == UseGas(p3, input.gasProvided)
           p5 == StartWasmerInstance(DeductInitialGasForExecution(p4, 0))
           stopped == IF stop = "transfer" THEN p2
                      ELSE IF stop = "initFunc" THEN p3 ELSE p4 IN
       /\ gasLimit = input.gasProvided
       /\ IF stop = "none"
          THEN /\ returnCodeOk
               /\ contexts' = p5
               /\ calls' = Append(calls, [function |-> input.function,
                                          gasProvided |-> input.gasProvided,
                                          before |-> before, gasLeft |-> GasLeft(c0),
                                          mode |-> "same"])
               /\ lastCall' = NoCall
          ELSE /\ contexts' = finishExecuteOnSameContext(stopped, FALSE, returnCodeOk).contexts
               /\ lastCall' = SameContextRecord(
                                  input.gasProvided, GasLeft(c0), before,
                                  finishExecuteOnSameContext(stopped, FALSE, returnCodeOk),
                                  TRUE)
               /\ UNCHANGED calls
    /\ UNCHANGED vmOut
    /\ UNCHANGED notExec

\* The library code of ExecuteOnSameContext is over: callSCMethodIndirect
\* returns (`ok`: without error and with return code Ok; otherwise
\* `returnCodeOk` tells whether the failure left the return code Ok) and
\* the deferred finishExecuteOnSameContext closes the call.
callSCMethodIndirectSame(ok, returnCodeOk) ==
    /\ Len(calls) >= 2
    /\ LET frame == Last(calls)
           f == finishExecuteOnSameContext(contexts, FALSE, returnCodeOk) IN
       /\ frame.mode = "same"
       /\ ok => returnCodeOk
       /\ contexts' = f.contexts
       /\ lastCall' = SameContextRecord(frame.gasProvided, frame.gasLeft, frame.before, f,
                                        ~ok)
    /\ calls' = Front(calls)
    /\ UNCHANGED vmOut
    /\ UNCHANGED notExec

\* The callee of a nested call is over: callSCMethodIndirect returns (`ok`:
\* without error), an upgrade's init function is followed by
\* checkFinalGasAfterExit, async.Execute runs, and the deferred
\* finishExecuteOnDestContext closes the call.
callSCMethodIndirect(ok, asyncOk, asyncComplete, saveOk) ==
    /\ Len(calls) >= 2
    /\ LET frame == Last(calls)
           executeErr ==
               \/ ~ok
               \/ frame.function = "upgradeContract" /\ ~checkFinalGasAfterExit(contexts)
               \/ ~asyncOk
           f == finishExecuteOnDestContext(contexts, executeErr, asyncComplete, saveOk) IN
       /\ contexts' = f.contexts
       /\ frame.mode = "dest"
       /\ lastCall' = CallRecord(frame.gasProvided, frame.gasLeft, frame.before,
                                 f.contexts, f.vmOutput)
    /\ calls' = Front(calls)
    /\ UNCHANGED vmOut
    /\ UNCHANGED notExec

\* sendCrossShardCallback: all the gas left goes to the callback transfer.
sendCrossShardCallback(c) ==
    LET gasLeft == GasLeft(c) IN
    Transfer(UseGas(c, gasLeft), c.runtime.callerAddr, c.runtime.recipientAddr, gasLeft, 0)

\* The callee of the top-level call is over: callSCMethod with
\* callFunctionAndExecuteAsync (checkFinalGasAfterExit, async.Execute), the
\* cross-shard callback of an asynchronous call, and the VMOutput.
callSCMethod(ok, asyncOk) ==
    /\ Len(calls) = 1
    /\ LET input == vmOut.input
           failed == ~ok \/ ~checkFinalGasAfterExit(contexts) \/ ~asyncOk
           c1 == IF ~failed /\ input.callType = "AsynchronousCall"
                 THEN sendCrossShardCallback(contexts)
                 ELSE contexts IN
       /\ contexts' = c1
       /\ vmOut' = [input |-> input,
                    output |-> IF failed THEN CreateVMOutputInCaseOfError
                               ELSE GetVMOutput(c1)]
    /\ calls' = <<>>
    /\ lastCall' = NoCall
    /\ UNCHANGED notExec

\* The contract a running contract calls: the other one.
Callee == CHOOSE a \in Addresses : calls # <<>> => a # contexts.runtime.recipientAddr

NextExec ==
    \/ \E value \in 0 .. MaxValue, gas \in 1 .. MaxGas,
          callType \in {"DirectCall", "AsynchronousCall"},
          stop \in {"asyncInit", "code", "none"} :
          \E cost \in {k \in {0, 1} : stop = "none" \/ k = 0} :
          doRunSmartContractCall("a", value, gas, callType, stop, cost)
    \/ Finish
    \/ \E dest \in Addresses, value \in 1 .. MaxValue : TransferValue(dest, value)
    \/ \E value \in 0 .. MaxValue, gasLimit \in 1 .. MaxGas :
          TransferValueExecuteWithTypedArgs("x", value, gasLimit)
    \/ \E value \in 0 .. MaxValue, gasLimit \in 0 .. MaxGas, kind \in NestedKinds :
          \E stop \in Stops(kind, value) :
             ExecuteOnDestContext(Callee, value, gasLimit, kind, stop)
    \/ \E gasLimit \in 0 .. MaxGas, innerGas \in 0 .. MaxGas,
          builtin \in {"err", "noCall", "call"} :
          \E stop \in Stops(<<"call", "DirectCall">>, 0) :
             ExecuteOnDestContextBuiltin(Callee, gasLimit, builtin, innerGas, stop)
    \/ \E ok, asyncOk, asyncComplete \in BOOLEAN :
       \E saveOk \in {b \in BOOLEAN : b \/ (~asyncComplete /\ ok /\ asyncOk)} :
          callSCMethodIndirect(ok, asyncOk, asyncComplete, saveOk)
    \/ \E ok, asyncOk \in BOOLEAN : callSCMethod(ok, asyncOk)
    \/ \E value \in 0 .. MaxValue, gasLimit \in 0 .. MaxGas, refactor \in BOOLEAN,
          returnCodeOk \in BOOLEAN :
          \E stop \in {"initFunc", "code", "none"} \cup {t \in {"transfer"} : value > 0} :
             ExecuteOnSameContext(Callee, value, gasLimit, refactor, stop, returnCodeOk)
    \/ \E ok, returnCodeOk \in BOOLEAN : callSCMethodIndirectSame(ok, returnCodeOk)

\* One host right after NewArwenVM, no top-level call in flight.
InitExec ==
    /\ InitHost
    /\ hostOf = [c \in Callers |-> "h1"]

SpecExec == InitExec /\ [][NextExec]_vars

(***************************************************************************)
(* Part III: contract upgrade, direct (doRunSmartContractUpgrade) and      *)
(* indirect (executeUpgrade, reached through execute).                     *)
(***************************************************************************)

\* A permission check that looks at the upgradeable bit only.
checkUpgradePermissionAnyCaller(vmInput, lookupOk) ==
    LET contract == userAccounts[vmInput.recipientAddr] IN
    IF ~lookupOk THEN ErrGetUserAccount
    ELSE IF ~contract.exists THEN ErrNilContract
    ELSE IF contract.upgradeable THEN ErrNil
    ELSE ErrUpgradeNotAllowed
\* checkUpgradePermission(vmInput): `lookupOk` tells whether GetUserAccount
\* answers without error.
checkUpgradePermission(vmInput, lookupOk) ==
    LET contract == userAccounts[vmInput.recipientAddr]
        isUpgradeable == contract.upgradeable
        isCallerOwner == vmInput.callerAddr = contract.owner IN
    IF ~lookupOk THEN ErrGetUserAccount
    ELSE IF ~contract.exists THEN ErrNilContract
    ELSE IF isUpgradeable /\ isCallerOwner THEN ErrNil
    ELSE ErrUpgradeNotAllowed

\* The step at which an upgrade that passed the permission check fails, if
\* any: the arguments, the gas for the deployment, the start of the instance
\* with the new code, the init function.
DeploySteps == {"args", "gas", "code", "init", "none"}

\* What can still go wrong in executeUpgrade after output.DeployCode: the
\* return code of the output, or the rest of the call around the upgrade.
IndirectSteps == DeploySteps \cup {"returnCode", "finish"}

\* The error of the step at which the deployment fails.
DeploymentError(step) ==
    IF step = "args" THEN ErrInvalidUpgradeArguments
    ELSE IF step = "gas" THEN ErrNotEnoughGas
    ELSE IF step = "code" THEN ErrContractInvalid
    ELSE IF step = "init" THEN ErrInitFunction
    ELSE IF step = "returnCode" THEN ErrReturnCodeNotOk
    ELSE ErrNil

\* The error an upgrade ends with: the permission check comes first, then the
\* code and metadata are taken from the arguments, then the deployment.
UpgradeError(vmInput, lookupOk, step) ==
    LET permission == checkUpgradePermission(vmInput, lookupOk) IN
    IF permission # ErrNil THEN permission
    ELSE DeploymentError(step)

\* The account after output.DeployCode took effect: new code, new metadata.
DeployCode(account, upgradeable) ==
    [account EXCEPT !.code = @ + 1, !.upgradeable = upgradeable]

\* The history record of an upgrade attempt.
UpgradeRecord(path, vmInput, lookupOk, error, deployed) ==
    [path |-> path, callerAddr |-> vmInput.callerAddr,
     recipientAddr |-> vmInput.recipientAddr,
     account |-> userAccounts[vmInput.recipientAddr], found |-> lookupOk,
     err |-> error, deployed |-> deployed]

\* doRunSmartContractUpgrade: RunSmartContractCall of the function
\* upgradeContract.  The VMOutput carries the new code iff no step failed.
doRunSmartContractUpgrade(caller, recipient, lookupOk, step, upgradeable) ==
    LET input == [callerAddr |-> caller, recipientAddr |-> recipient]
        error == UpgradeError(input, lookupOk, step) IN
    /\ error = ErrNil => userAccounts[recipient].code < MaxCode
    /\ userAccounts' = IF error = ErrNil
                       THEN [userAccounts EXCEPT ![recipient] = DeployCode(@, upgradeable)]
                       ELSE userAccounts
    /\ lastUpgrade' = UpgradeRecord("direct", input, lookupOk, error, error = ErrNil)
    /\ UNCHANGED notUpgrade

\* executeUpgrade: a running contract (`caller`) reaches execute() with the
\* function upgradeContract, through ExecuteOnDestContext or through
\* ExecuteOnSameContext (where the recipient is the caller itself when the
\* refactor-context flag is on).  After output.DeployCode the return code of
\* the output is looked at; the staged code lasts iff the call and the calls
\* around it end without error (step "finish" is where they do not).
executeUpgrade(mode, caller, dest, lookupOk, step, upgradeable) ==
    LET recipient == IF mode = "sameRefactor" THEN caller ELSE dest
        input == [callerAddr |-> caller, recipientAddr |-> recipient]
        error == UpgradeError(input, lookupOk, step)
        deployed == error = ErrNil /\ step # "finish" IN
    /\ userAccounts[caller].exists
    /\ deployed => userAccounts[recipient].code < MaxCode
    /\ userAccounts' = IF deployed
                       THEN [userAccounts EXCEPT ![recipient] = DeployCode(@, upgradeable)]
                       ELSE userAccounts
    /\ lastUpgrade' = UpgradeRecord("indirect", input, lookupOk, error, deployed)
    /\ UNCHANGED notUpgrade

NextUpgrade ==
    \/ \E caller \in Accounts, recipient \in Addresses,
          lookupOk, upgradeable \in BOOLEAN, step \in DeploySteps :
          doRunSmartContractUpgrade(caller, recipient, lookupOk, step, upgradeable)
    \/ \E mode \in {"dest", "same", "sameRefactor"}, caller, dest \in Addresses,
          lookupOk, upgradeable \in BOOLEAN, step \in IndirectSteps :
          executeUpgrade(mode, caller, dest, lookupOk, step, upgradeable)

\* The accounts the blockchain hook may know before the first upgrade.
AccountStates ==
    {[exists |-> FALSE, owner |-> "x", upgradeable |-> FALSE, code |-> 0]}
      \cup [exists : {TRUE}, owner : Accounts, upgradeable : BOOLEAN, code : {0}]

InitUpgrade ==
    /\ InitHostVars
    /\ hostOf = [c \in Callers |-> "h1"]
    /\ InitExecVars
    /\ userAccounts \in [Addresses -> AccountStates]
    /\ lastUpgrade = NoUpgrade
    /\ InitFunctionVars
    /\ InitSyncVars
    /\ InitStackVars
    /\ InitAsyncVars
    /\ InitRegisterVars
    /\ InitDeployVars
    /\ InitStateStackVars
    /\ InitReturnDataVars
    /\ InitDeleteVars
    /\ InitResetVars
    /\ InitEsdtVars
    /\ InitEpochVars
    /\ InitLockVars

SpecUpgrade == InitUpgrade /\ [][NextUpgrade]_vars

(***************************************************************************)
(* Part IV: which exported function a call may run (execution.go).         *)
(***************************************************************************)

\* The function names a call input can carry: init, callBack, an ordinary
\* endpoint, and the empty name.
FunctionNames == {InitFunctionName, CallbackFunctionName, "endpoint", ""}

\* verifyAllowedFunctionCall: init is never allowed here, callBack only in a
\* call of type AsynchronousCallBack.
verifyAllowedFunctionCall(functionName, callType) ==
    IF functionName = InitFunctionName THEN ErrInitFuncCalledInRun
    ELSE IF functionName = CallbackFunctionName /\ callType # "AsynchronousCallBack"
    THEN ErrCallBackFuncCalledInRun
    ELSE ErrNil

\* runtime.FunctionNameChecked: the function must be exported by the module;
\* a missing callBack has an error of its own.
FunctionNameChecked(functionName) ==
    IF functionName \in exports THEN ErrNil
    ELSE IF functionName = CallbackFunctionName THEN ErrNilCallbackFunction
    ELSE ErrFuncNotFound

InvokeRecord(path, functionName, callType, allowInit, error, ran) ==
    [path |-> path, function |-> functionName, callType |-> callType,
     allowInitFunction |-> allowInit, err |-> error, ran |-> ran]

\* callFunctionAndExecuteAsync, as callSCMethod reaches it for the three call
\* types of a top-level call (for AsynchronousCallBack the function is the
\* callback name set with SetCustomCallFunction).  `allowInit` is the
\* AllowInitFunction field of the input, which this path does not read.
callFunctionAndExecuteAsync(functionName, callType, allowInit) ==
    LET allowed == verifyAllowedFunctionCall(functionName, callType)
        checked == FunctionNameChecked(functionName)
        error == IF functionName = "" THEN ErrInvalidFunction
                 ELSE IF allowed # ErrNil THEN allowed
                 ELSE checked IN
    /\ lastInvoke' = InvokeRecord("top", functionName, callType, allowInit,
                                  error, error = ErrNil)
    /\ UNCHANGED exports
    /\ UNCHANGED notFunction

\* execute followed by callSCMethodIndirect: a nested call on the destination
\* or on the same context (`path`), a local asynchronous call or its callback
\* (`callType`).  Only the init function is checked before the function is
\* looked up and called; a callBack the module does not export ends the call
\* without error.
execute(path, functionName, callType, allowInit) ==
    LET checked == FunctionNameChecked(functionName)
        error == IF functionName = InitFunctionName /\ ~allowInit
                 THEN ErrInitFuncCalledInRun
                 ELSE IF checked = ErrNilCallbackFunction THEN ErrNil
                 ELSE checked IN
    /\ allowInit => functionName = InitFunctionName
    /\ lastInvoke' = InvokeRecord(path, functionName, callType, allowInit,
                                  error, error = ErrNil /\ checked = ErrNil)
    /\ UNCHANGED exports
    /\ UNCHANGED notFunction

\* callInitFunction: a deployment or an upgrade runs init if the new module
\* exports it.
callInitFunction ==
    /\ lastInvoke' = InvokeRecord("deploy", InitFunctionName, "DirectCall", TRUE,
                                  ErrNil, InitFunctionName \in exports)
    /\ UNCHANGED exports
    /\ UNCHANGED notFunction

NextFunction ==
    \/ \E functionName \in FunctionNames, callType \in CallTypes, allowInit \in BOOLEAN :
          callFunctionAndExecuteAsync(functionName, callType, allowInit)
    \/ \E path \in {"dest", "same"}, functionName \in FunctionNames,
          callType \in CallTypes, allowInit \in BOOLEAN :
          execute(path, functionName, callType, allowInit)
    \/ callInitFunction

InitFunction ==
    /\ InitHostVars
    /\ hostOf = [c \in Callers |-> "h1"]
    /\ InitExecVars
    /\ InitUpgradeVars
    /\ exports \in SUBSET (FunctionNames \ {""})
    /\ lastInvoke = NoInvoke
    /\ InitSyncVars
    /\ InitStackVars
    /\ InitAsyncVars
    /\ InitRegisterVars
    /\ InitDeployVars
    /\ InitStateStackVars
    /\ InitReturnDataVars
    /\ InitDeleteVars
    /\ InitResetVars
    /\ InitEsdtVars
    /\ InitEpochVars
    /\ InitLockVars

SpecFunction == InitFunction /\ [][NextFunction]_vars

(***************************************************************************)
(* Part V: synchronous child calls and the read-only flag (elrondei.go,    *)
(* execution.go).  The running contract is the one of the innermost open   *)
(* call; the top-level call runs contract "a".                             *)
(***************************************************************************)

\* runtime.GetContextAddress
ContextAddress == IF syncCalls = <<>> THEN "a" ELSE Last(syncCalls).address

\* The two hooks executeReadOnly: the one of ElrondApi and the exported
\* v1_4_executeReadOnly of the v1_4 hooks.
ReadOnlyHooks == {"readOnly", "readOnlyLegacy"}

\* The running code is inside a call opened by executeReadOnly.
InReadOnlyCall == \E i \in DOMAIN syncCalls : syncCalls[i].hook \in ReadOnlyHooks

\* host.AreInSameShard
AreInSameShard(leftAddress, rightAddress) == shardOf[leftAddress] = shardOf[rightAddress]

\* A preparation of the call input that accepts a destination in any shard.
prepareIndirectContractCallInputAnyShard(destination, syncExecutionRequired) == ErrNil
\* prepareIndirectContractCallInput: the error it returns.
prepareIndirectContractCallInput(destination, syncExecutionRequired) ==
    IF syncExecutionRequired /\ ~AreInSameShard(ContextAddress, destination)
    THEN ErrSyncExecutionNotInSameShard
    ELSE ErrNil

\* storage.SetStorage and output.Transfer refuse to act in read-only mode.
SetStorage == IF readOnly THEN ErrInvalidCallOnReadOnlyMode ELSE ErrNil
OutputTransfer == IF readOnly THEN ErrInvalidCallOnReadOnlyMode ELSE ErrNil

\* The record of a hook: what it was, the mutation it attempted (if any), the
\* flag and the open calls when it acted, its error, whether the mutation
\* took effect, whether code of the destination ran.
OpRecord(op, dest, mutation, flag, inside, error, effect, ran) ==
    [op |-> op, sameShard |-> AreInSameShard(ContextAddress, dest),
     mutation |-> mutation, readOnly |-> flag, inReadOnlyCall |-> inside,
     depth |-> Len(syncCalls), err |-> error, effect |-> effect, ran |-> ran]

\* A flag after executeReadOnly that is cleared whatever it was before.
SetReadOnlyAfterCallCleared(wasReadOnly) == FALSE
\* ExecuteReadOnlyWithTypedArguments: runtime.SetReadOnly(wasReadOnly) after
\* the child call.
SetReadOnlyAfterCall(wasReadOnly) == wasReadOnly

\* v1_4 ExecuteReadOnlyWithTypedArguments: runtime.SetReadOnly(false) after
\* the child call.
SetReadOnlyAfterCallLegacy == FALSE

\* The three hooks that open a synchronous child call.  The same-shard check
\* of prepareIndirectContractCallInput comes first.  A call of the function
\* upgradeContract is served by executeUpgrade, which deploys the new code if
\* the caller may upgrade (`permitted`) and runs no function of the old code;
\* any other call pushes the states and starts the destination.
OpenSyncCall(hook, dest, function, permitted) ==
    LET error == prepareIndirectContractCallInput(dest, TRUE)
        flag == readOnly \/ hook = "readOnly"
        inside == InReadOnlyCall \/ hook = "readOnly" IN
    IF error # ErrNil
    THEN /\ lastOp' = OpRecord(hook, dest, "none", readOnly, InReadOnlyCall, error, FALSE, FALSE)
         /\ UNCHANGED <<shardOf, readOnly, syncCalls, effects>>
    ELSE IF function = UpgradeFunctionName
    THEN /\ lastOp' = OpRecord(hook, dest, "upgrade", flag, inside,
                                IF permitted THEN ErrNil ELSE ErrUpgradeNotAllowed,
                                permitted, FALSE)
         /\ effects' = IF permitted
                       THEN effects \cup {[kind |-> "code", readOnlyCall |-> inside]}
                       ELSE effects
         /\ UNCHANGED <<shardOf, readOnly, syncCalls>>
    ELSE /\ Len(syncCalls) < MaxSyncDepth
         /\ syncCalls' = Append(syncCalls,
                [hook |-> hook,
                 address |-> IF hook = "same" THEN ContextAddress ELSE dest,
                 wasReadOnly |-> readOnly, saved |-> effects])
         /\ readOnly' = flag
         /\ lastOp' = OpRecord(hook, dest, "none", readOnly, InReadOnlyCall, ErrNil, FALSE, TRUE)
         /\ UNCHANGED <<shardOf, effects>>

ExecuteOnDestContextWithTypedArgs(dest, function, permitted) ==
    /\ OpenSyncCall("dest", dest, function, permitted)
    /\ UNCHANGED notSync

ExecuteOnSameContextWithTypedArgs(dest, function, permitted) ==
    /\ OpenSyncCall("same", dest, function, permitted)
    /\ UNCHANGED notSync

ExecuteReadOnlyWithTypedArguments(dest, function, permitted) ==
    /\ OpenSyncCall("readOnly", dest, function, permitted)
    /\ UNCHANGED notSync

\* The exported v1_4_executeReadOnly (ExecuteReadOnlyWithTypedArguments of
\* the v1_4 hooks): after the same-shard check the flag is set, the call is
\* made through ExecuteOnDestContext and the flag is cleared.
v1_4_executeReadOnly(dest, function, permitted) ==
    LET error == prepareIndirectContractCallInput(dest, TRUE) IN
    /\ IF error # ErrNil
       THEN /\ lastOp' = OpRecord("readOnlyLegacy", dest, "none", readOnly, InReadOnlyCall,
                                   error, FALSE, FALSE)
            /\ UNCHANGED <<shardOf, readOnly, syncCalls, effects>>
       ELSE IF function = UpgradeFunctionName
       THEN /\ lastOp' = OpRecord("readOnlyLegacy", dest, "upgrade", TRUE, TRUE,
                                   IF permitted THEN ErrNil ELSE ErrUpgradeNotAllowed,
                                   permitted, FALSE)
            /\ effects' = IF permitted
                          THEN effects \cup {[kind |-> "code", readOnlyCall |-> TRUE]}
                          ELSE effects
            /\ readOnly' = SetReadOnlyAfterCallLegacy
            /\ UNCHANGED <<shardOf, syncCalls>>
       ELSE /\ Len(syncCalls) < MaxSyncDepth
            /\ syncCalls' = Append(syncCalls,
                   [hook |-> "readOnlyLegacy", address |-> dest,
                    wasReadOnly |-> readOnly, saved |-> effects])
            /\ readOnly' = TRUE
            /\ lastOp' = OpRecord("readOnlyLegacy", dest, "none", readOnly, InReadOnlyCall,
                                   ErrNil, FALSE, TRUE)
            /\ UNCHANGED <<shardOf, effects>>
    /\ UNCHANGED notSync

\* The child call returns into its hook: the states are popped (merged when
\* the call succeeded, set back when it failed) and executeReadOnly puts the
\* flag back.
SyncCallReturns(ok) ==
    /\ syncCalls # <<>>
    /\ LET call == Last(syncCalls) IN
       /\ syncCalls' = SubSeq(syncCalls, 1, Len(syncCalls) - 1)
       /\ effects' = IF ok THEN effects ELSE call.saved
       /\ readOnly' = IF call.hook = "readOnly"
                        THEN SetReadOnlyAfterCall(call.wasReadOnly)
                        ELSE IF call.hook = "readOnlyLegacy"
                        THEN SetReadOnlyAfterCallLegacy
                        ELSE readOnly
       /\ lastOp' = OpRecord("return", ContextAddress, "none", readOnly, InReadOnlyCall,
                              IF ok THEN ErrNil ELSE ErrReturnCodeNotOk, FALSE, FALSE)
    /\ UNCHANGED shardOf
    /\ UNCHANGED notSync

\* What each mutation leaves in the output: a storage update, an output
\* transfer, or deployed code.
EffectKind(mutation) ==
    IF mutation = "storage" THEN "storage"
    ELSE IF mutation \in {"deploy", "upgrade"} THEN "code"
    ELSE "transfer"

\* A hook of the running contract that attempts a mutation and ends with
\* `error`.
Mutation(op, kind, error) ==
    /\ lastOp' = OpRecord(op, ContextAddress, kind, readOnly, InReadOnlyCall, error, error = ErrNil, FALSE)
    /\ effects' = IF error = ErrNil
                  THEN effects \cup {[kind |-> EffectKind(kind), readOnlyCall |-> InReadOnlyCall]}
                  ELSE effects
    /\ UNCHANGED <<shardOf, readOnly, syncCalls>>

\* StorageStoreWithTypedArgs: storage.SetStorage decides.
StorageStoreWithTypedArgs ==
    /\ Mutation("storageStore", "storage", SetStorage)
    /\ UNCHANGED notSync

\* The hook transferValue: output.Transfer decides.
transferValue ==
    /\ Mutation("transferValue", "transfer", OutputTransfer)
    /\ UNCHANGED notSync

\* ExecuteESDTTransfer
ExecuteESDTTransfer(numTransfers) ==
    /\ Mutation("ExecuteESDTTransfer", "esdt",
                IF numTransfers = 0 THEN ErrFailedTransfer
                ELSE IF readOnly THEN ErrInvalidCallOnReadOnlyMode
                ELSE ErrNil)
    /\ UNCHANGED notSync

\* callBuiltinFunction
callBuiltinFunction ==
    /\ Mutation("callBuiltinFunction", "builtin",
                IF readOnly THEN ErrInvalidCallOnReadOnlyMode ELSE ErrNil)
    /\ UNCHANGED notSync

\* CreateNewContract: the gas of the deployment is deducted before the flag is
\* looked at.
CreateNewContract(gasOk) ==
    /\ Mutation("CreateNewContract", "deploy",
                IF ~gasOk THEN ErrNotEnoughGas
                ELSE IF readOnly THEN ErrInvalidCallOnReadOnlyMode
                ELSE ErrNil)
    /\ UNCHANGED notSync

NextSync ==
    \/ \E dest \in Addresses, function \in {"endpoint", UpgradeFunctionName},
          permitted \in BOOLEAN :
          \/ ExecuteOnDestContextWithTypedArgs(dest, function, permitted)
          \/ ExecuteOnSameContextWithTypedArgs(dest, function, permitted)
          \/ ExecuteReadOnlyWithTypedArguments(dest, function, permitted)
    \/ \E ok \in BOOLEAN : SyncCallReturns(ok)
    \/ StorageStoreWithTypedArgs
    \/ transferValue
    \/ \E numTransfers \in {0, 1} : ExecuteESDTTransfer(numTransfers)
    \/ callBuiltinFunction
    \/ \E gasOk \in BOOLEAN : CreateNewContract(gasOk)

InitSync ==
    /\ InitHostVars
    /\ hostOf = [c \in Callers |-> "h1"]
    /\ InitExecVars
    /\ InitUpgradeVars
    /\ InitFunctionVars
    /\ shardOf \in [Addresses -> Shards]
    /\ readOnly = FALSE
    /\ syncCalls = <<>>
    /\ effects = {}
    /\ lastOp = NoOp
    /\ InitStackVars
    /\ InitAsyncVars
    /\ InitRegisterVars
    /\ InitDeployVars
    /\ InitStateStackVars
    /\ InitReturnDataVars
    /\ InitDeleteVars
    /\ InitResetVars
    /\ InitEsdtVars
    /\ InitEpochVars
    /\ InitLockVars

SpecSync == InitSync /\ [][NextSync]_vars

\* Contracts served by the v1_4 hooks: read-only calls and stores.
NextSyncLegacy ==
    \/ \E dest \in Addresses, function \in {"endpoint", UpgradeFunctionName},
          permitted \in BOOLEAN : v1_4_executeReadOnly(dest, function, permitted)
    \/ \E ok \in BOOLEAN : SyncCallReturns(ok)
    \/ StorageStoreWithTypedArgs

SpecSyncLegacy == InitSync /\ [][NextSyncLegacy]_vars

(***************************************************************************)
(* Part VI: the instance stack under nested synchronous calls (arwen.go,   *)
(* execution.go).                                                          *)
(***************************************************************************)

\* A host that gives the runtime context a bound one above the default.
maxInstanceStackSizeRaised == MaximumRuntimeInstanceStackSize + 1
\* NewArwenVM: runtimeContext.SetMaxInstanceStackSize(MaximumRuntimeInstanceStackSize)
maxInstanceStackSize == MaximumRuntimeInstanceStackSize

\* runtime.StartWasmerInstance for a nested call, the instance of the caller
\* being on the stack already: the stack may not exceed its bound.
StartNestedInstance(stack) ==
    IF Len(stack) > maxInstanceStackSize THEN ErrMaxInstancesReached ELSE ErrNil

\* doRunSmartContractCall starts the instance of the called contract on an
\* empty stack.
StartTopLevelInstance(contract) ==
    /\ running = "none"
    /\ running' = contract
    /\ instanceStack' = <<>>
    /\ executionFailed' = FALSE
    /\ lastStart' = NoStart
    /\ UNCHANGED notStack

\* A nested call (ExecuteOnDestContext, ExecuteOnSameContext): runtime.PushState
\* puts the running instance on the stack, execute() starts the instance of
\* the destination.  When that fails the states are popped again and the hook
\* reports the error, failing the execution if API errors do
\* (`apiErrorFails`).
StartNestedCall(dest, apiErrorFails) ==
    /\ running # "none" /\ ~executionFailed
    /\ LET pushed == Append(instanceStack, running)
           error == StartNestedInstance(pushed) IN
       /\ lastStart' = [depth |-> Len(pushed), err |-> error]
       /\ IF error = ErrNil
          THEN /\ instanceStack' = pushed
               /\ running' = dest
               /\ UNCHANGED executionFailed
          ELSE /\ executionFailed' = apiErrorFails
               /\ UNCHANGED <<instanceStack, running>>
    /\ UNCHANGED notStack

\* The nested call returns: runtime.PopSetActiveState takes the caller's
\* instance from the stack.
NestedCallReturns ==
    /\ instanceStack # <<>>
    /\ running' = Last(instanceStack)
    /\ instanceStack' = SubSeq(instanceStack, 1, Len(instanceStack) - 1)
    /\ UNCHANGED <<executionFailed, lastStart>>
    /\ UNCHANGED notStack

\* The top-level call ends.
TopLevelCallEnds ==
    /\ running # "none" /\ instanceStack = <<>>
    /\ running' = "none"
    /\ UNCHANGED <<instanceStack, executionFailed, lastStart>>
    /\ UNCHANGED notStack

NextStack ==
    \/ \E contract \in Addresses : StartTopLevelInstance(contract)
    \/ \E dest \in Addresses, apiErrorFails \in BOOLEAN : StartNestedCall(dest, apiErrorFails)
    \/ NestedCallReturns
    \/ TopLevelCallEnds

InitStack ==
    /\ InitHostVars
    /\ hostOf = [c \in Callers |-> "h1"]
    /\ InitExecVars
    /\ InitUpgradeVars
    /\ InitFunctionVars
    /\ InitSyncVars
    /\ InitStackVars
    /\ InitAsyncVars
    /\ InitRegisterVars
    /\ InitDeployVars
    /\ InitStateStackVars
    /\ InitReturnDataVars
    /\ InitDeleteVars
    /\ InitResetVars
    /\ InitEsdtVars
    /\ InitEpochVars
    /\ InitLockVars

SpecStack == InitStack /\ [][NextStack]_vars

(***************************************************************************)
(* Part VII: asynchronous calls, their cross-shard callbacks and the       *)
(* persisted async context (execution.go, asyncRemote.go).                 *)
(***************************************************************************)

\* async.IsComplete: no child is counted as unresolved.
IsComplete(context) == context.callsCounter = 0

\* A cross-shard send that leaves callsCounter as it is.
sendAsyncCallCrossShardUncounted(context, child, parseOk, transferOk) ==
    IF ~parseOk THEN [context |-> context, err |-> "ParseData error"]
    ELSE [context |-> [context EXCEPT !.cross[child] = TRUE],
          err |-> IF transferOk THEN ErrNil ELSE "Transfer error"]
\* sendAsyncCallCrossShard: the call data is parsed, callsCounter goes up, the
\* transfer of type AsynchronousCall is staged; the call stays Pending.
sendAsyncCallCrossShard(context, child, parseOk, transferOk) ==
    IF ~parseOk THEN [context |-> context, err |-> "ParseData error"]
    ELSE [context |-> [context EXCEPT !.callsCounter = @ + 1, !.cross[child] = TRUE],
          err |-> IF transferOk THEN ErrNil ELSE "Transfer error"]

\* async.Execute for the children from `child` on: a call to the same shard
\* is resolved on the spot, a call to another shard is sent.  The first error
\* ends it.
RECURSIVE AsyncExecuteFrom(_, _, _, _, _, _)
AsyncExecuteFrom(context, registered, child, localOk, parseOk, transferOk) ==
    IF child > MaxChildren THEN [context |-> context, err |-> ErrNil]
    ELSE LET step ==
                 IF registered[child] = "local"
                 THEN [context |-> [context EXCEPT !.status[child] =
                                       IF localOk THEN "Resolved" ELSE "Rejected"],
                       err |-> ErrNil]
                 ELSE IF registered[child] = "cross"
                 THEN sendAsyncCallCrossShard(context, child, parseOk, transferOk)
                 ELSE [context |-> context, err |-> ErrNil] IN
         IF step.err # ErrNil THEN step
         ELSE AsyncExecuteFrom(step.context, registered, child + 1, localOk, parseOk, transferOk)

\* A rule that saves every context.
ShouldSaveAlways(context, nested) == TRUE
\* Whether the context is saved after async.Execute: a top-level call saves a
\* context that is not complete unless its calls are of the legacy group
\* (callFunctionAndExecuteAsync); a nested call saves whenever the context is
\* not complete (finishExecuteOnDestContext).
ShouldSave(context, nested) ==
    ~IsComplete(context) /\ (nested \/ ~context.legacy)

\* Some child is still Pending in another shard.
HasPendingCrossShard(context) ==
    \E c \in Children : context.status[c] = "Pending" /\ context.cross[c]

\* The function of a contract call has registered its async calls
\* (`registered`: per child "none", "local" or "cross"); async.Execute runs
\* them and the context is saved if it has to be.  An error of Execute or of
\* Save fails the call and nothing of it lasts.
ExecuteAsyncCalls(registered, legacy, nested, localOk, parseOk, transferOk, saveOk) ==
    /\ asyncContext = NoAsyncContext /\ ~persisted
    /\ \A c \in Children : messages[c] = "none"
    /\ \E c \in Children : registered[c] # "none"
    /\ legacy => Cardinality({c \in Children : registered[c] # "none"}) = 1
    /\ LET start == [NoAsyncContext EXCEPT
                        !.legacy = legacy,
                        !.status = [c \in Children |->
                                      IF registered[c] = "none" THEN "none" ELSE "Pending"]]
           result == AsyncExecuteFrom(start, registered, 1, localOk, parseOk, transferOk)
           complete == IsComplete(result.context)
           save == ShouldSave(result.context, nested)
           error == IF result.err # ErrNil THEN result.err
                    ELSE IF save /\ ~saveOk THEN "Save error"
                    ELSE ErrNil IN
       /\ lastAsync' = [step |-> "execute", err |-> error, nested |-> nested,
                        context |-> result.context,
                        complete |-> error = ErrNil /\ complete,
                        saved |-> error = ErrNil /\ save]
       /\ IF error # ErrNil
          THEN UNCHANGED <<asyncContext, persisted, messages>>
          ELSE /\ asyncContext' = IF complete THEN NoAsyncContext ELSE result.context
               /\ persisted' = save
               /\ messages' = [c \in Children |->
                                 IF registered[c] = "cross" THEN "call" ELSE "none"]
    /\ UNCHANGED notAsync

\* The outcomes of callFunctionAndExecuteAsync: "ok" (true, nil), "failed"
\* (true, err: the function itself failed), "notComplete" (false, nil: the
\* function left async calls of its own pending), "error" (false, err: the
\* function may not be called or is not found, or async.Execute failed).
CallbackOutcomes == {"ok", "failed", "notComplete", "error"}

\* SendCrossShardCallback: the gas left is used up and one transfer of type
\* AsynchronousCallBack to the caller is staged; when the transfer fails the
\* execution is failed and nothing is staged.
SendCrossShardCallback(transferOk) ==
    IF transferOk THEN [callbacks |-> 1, err |-> ErrNil]
    ELSE [callbacks |-> 0, err |-> "Transfer error"]

\* callSCMethodAsynchronousCall on the shard of the destination: when
\* callFunctionAndExecuteAsync reports the call complete,
\* SendCrossShardCallback sends the return code back; otherwise the error (or
\* nil) is returned and no callback is sent by this call.
callSCMethodAsynchronousCall(child, outcome, transferOk) ==
    /\ messages[child] = "call"
    /\ LET isCallComplete == outcome \in {"ok", "failed"}
           sent == IF isCallComplete THEN SendCrossShardCallback(transferOk)
                   ELSE [callbacks |-> 0,
                         err |-> IF outcome = "error" THEN "call error" ELSE ErrNil] IN
       /\ messages' = [messages EXCEPT ![child] =
                          IF sent.callbacks = 0 THEN "none"
                          ELSE IF outcome = "ok" THEN "callbackOk" ELSE "callbackFailed"]
       /\ lastAsync' = [step |-> "remote", err |-> sent.err, outcome |-> outcome,
                        callbacks |-> sent.callbacks]
    /\ UNCHANGED <<asyncContext, persisted>>
    /\ UNCHANGED notAsync

\* async.NotifyChildIsComplete: callsCounter goes down by one.
NotifyChildIsComplete(context) == [context EXCEPT !.callsCounter = @ - 1]

\* callSCMethodAsynchronousCallBack: the callback of `child` arrives on the
\* shard of the caller.
callSCMethodAsynchronousCallBack(child, updateOk, hasCallback, outcome, loadOk) ==
    /\ messages[child] \in {"callbackOk", "callbackFailed"}
    /\ LET isLegacy == asyncContext.legacy
           isCallComplete == outcome \in {"ok", "failed"}
           error == IF ~updateOk /\ ~isLegacy THEN "UpdateCurrentAsyncCallStatus error"
                    ELSE IF ~updateOk THEN ErrNil
                    ELSE IF hasCallback /\ ~isCallComplete
                    THEN (IF outcome = "error" THEN "callback error" ELSE ErrNil)
                    ELSE IF isLegacy THEN ErrNil
                    ELSE IF ~loadOk THEN "LoadParentContext error"
                    ELSE ErrNil
           notified == /\ updateOk /\ ~isLegacy /\ loadOk
                       /\ hasCallback => isCallComplete
           updated == [asyncContext EXCEPT !.status[child] =
                          IF messages[child] = "callbackOk" THEN "Resolved" ELSE "Rejected"]
           after == NotifyChildIsComplete(updated) IN
       /\ messages' = [messages EXCEPT ![child] = "none"]
       /\ lastAsync' = [step |-> "callback", err |-> error, legacy |-> isLegacy,
                        found |-> updateOk /\ loadOk,
                        outcome |-> IF hasCallback THEN outcome ELSE "none",
                        counterBefore |-> asyncContext.callsCounter,
                        counterAfter |-> IF notified THEN after.callsCounter
                                         ELSE asyncContext.callsCounter,
                        context |-> IF notified THEN after ELSE asyncContext,
                        complete |-> notified /\ IsComplete(after)]
       /\ IF notified
          THEN /\ asyncContext' = IF IsComplete(after) THEN NoAsyncContext ELSE after
               /\ persisted' = ~IsComplete(after)
          ELSE /\ asyncContext' = IF isLegacy THEN NoAsyncContext ELSE asyncContext
               /\ UNCHANGED persisted
    /\ UNCHANGED notAsync

NextAsync ==
    \/ \E registered \in [Children -> {"none", "local", "cross"}],
          legacy, nested, localOk, parseOk, transferOk, saveOk \in BOOLEAN :
          ExecuteAsyncCalls(registered, legacy, nested, localOk, parseOk, transferOk, saveOk)
    \/ \E child \in Children, outcome \in CallbackOutcomes, transferOk \in BOOLEAN :
          callSCMethodAsynchronousCall(child, outcome, transferOk)
    \/ \E child \in Children, updateOk, hasCallback, loadOk \in BOOLEAN,
          outcome \in CallbackOutcomes :
          callSCMethodAsynchronousCallBack(child, updateOk, hasCallback, outcome, loadOk)

InitAsync ==
    /\ InitHostVars
    /\ hostOf = [c \in Callers |-> "h1"]
    /\ InitExecVars
    /\ InitUpgradeVars
    /\ InitFunctionVars
    /\ InitSyncVars
    /\ InitStackVars
    /\ InitAsyncVars
    /\ InitRegisterVars
    /\ InitDeployVars
    /\ InitStateStackVars
    /\ InitReturnDataVars
    /\ InitDeleteVars
    /\ InitResetVars
    /\ InitEsdtVars
    /\ InitEpochVars
    /\ InitLockVars

SpecAsync == InitAsync /\ [][NextAsync]_vars

(***************************************************************************)
(* Properties of the top-level calls (specification SpecHost).             *)
(***************************************************************************)

Returned(c) == pc[c] = "returned" /\ err[c] # ErrVMIsClosing

\* C1 (as stated): every call whose body panics before the execution timeout
\* elapses returns ErrExecutionPanicked, with the panic recovered and the
\* instance cleaned.
C1_PanicBeforeTimeoutReturnsPanicked ==
    \A c \in Callers :
        (Returned(c) /\ panicked[c] = "beforeTimeout")
            => (err[c] = ErrExecutionPanicked /\ cleaned[c] /\ task[c] = "exited")

\* C1 (amended): every call whose body panics has the panic recovered inside
\* the task and the instance cleaned, and returns ErrExecutionPanicked when
\* the select takes the done case; when the timeout is delivered to the
\* select before the task has closed done, the call returns
\* ErrExecutionFailedWithTimeout instead, even if the panic preceded the timeout.
C1_PanicRecovered ==
    \A c \in Callers :
        (Returned(c) /\ panicked[c] # "no")
            => /\ cleaned[c]
               /\ task[c] = "exited"
               /\ branch[c] = "done" => err[c] = ErrExecutionPanicked
               /\ branch[c] = "timeout" => err[c] = ErrExecutionFailedWithTimeout

C1_Witness ==
    \E c \in Callers :
        /\ Returned(c) /\ panicked[c] = "beforeTimeout" /\ branch[c] = "done"
        /\ err[c] = ErrExecutionPanicked /\ cleaned[c]

C4_PanicAndTimeoutReturnError ==
    \A c \in Callers :
        (pc[c] = "returned" /\ panicked[c] # "no")
            => /\ err[c] \in {ErrExecutionPanicked, ErrExecutionFailedWithTimeout}
               /\ task[c] = "exited"

C4_Witness ==
    \E c \in Callers :
        /\ pc[c] = "returned" /\ panicked[c] = "afterTimeout" /\ TimerFired(c)
        /\ err[c] = ErrExecutionPanicked

\* The threads of control that can write a context of host h in the current
\* state: the tasks running a body or its recovery, and the callers about to
\* invoke FailExecution.
ContextMutators(h) ==
    {<<c, "task">> : c \in {d \in Callers : hostOf[d] = h /\ task[d] \in {"running", "panicking"}}}
    \cup {<<c, "caller">> : c \in {d \in Callers : hostOf[d] = h /\ pc[d] = "caseTimeout"}}

\* C5: at any moment the contexts of one host are mutated by at most one
\* thread of control: no two bodies run on one host at once and no other
\* thread writes a context while a body runs.
C5_SingleMutator ==
    \A h \in Hosts : Cardinality(ContextMutators(h)) <= 1

\* The state of the contexts and flags of host h.
HostState(h) == <<breakpoint[h], instance[h], gasSchedule[h], closingInstance[h]>>

\* The goroutines of a call of caller c, or an operation on host h, took the step.
CallStepped(c) == pc'[c] # pc[c] \/ task'[c] # task[c] \/ timer'[c] # timer[c]
HostStepped(h) == admin'[h] # admin[h] \/ \E c \in Callers : hostOf[c] = h /\ CallStepped(c)

\* An in-flight call can take a step of its own, or waits only for its own task.
OwnProgress(c) ==
    \/ pc[c] \in {"select", "caseTimeout"}
    \/ task[c] \in {"running", "panicking"}
    \/ pc[c] = "waitDone" /\ DoneClosed(c)

C7_GasScheduleStableDuringCalls ==
    /\ [][\A h \in Hosts : gasSchedule'[h] # gasSchedule[h] => Readers(h) = {}]_vars
    /\ [](\A h \in Hosts : admin[h] = "gasSchedule" => Readers(h) = {})

C7_Witness ==
    \E c \in Callers :
        /\ InCall(c) /\ gasSchedule[hostOf[c]] = "g2" /\ admin[hostOf[c]] = "idle"

(***************************************************************************)
(* Properties of the nested calls (specification SpecExec).                *)
(***************************************************************************)

SumBalanceDelta(out) == SumOver(out.balanceDelta, Accounts)

\* The output transfers a returned nested call added, as the sum of their
\* gas limits.
ProducedGasLimit(call) ==
    call.vmOutput.outputTransfers.gasLimit - call.before.output.outputTransfers.gasLimit

\* C8: a nested call made through ExecuteOnDestContext that ends with return
\* code Ok has its output and metering frames merged into the parent's
\* (accounts, transfers and return data of the child are carried over, its
\* gas use is summed, the state stacks are as at entry); after one that
\* fails, the parent's output and metering state with their stacks equal
\* what they were when the child was entered.
C8_ChildMergedOrDiscarded ==
    /\ lastCall.status = "failed" => lastCall.after = lastCall.before
    /\ lastCall.status = "ok" =>
          /\ lastCall.after.output.balanceDelta = lastCall.vmOutput.balanceDelta
          /\ lastCall.after.output.outputTransfers = lastCall.vmOutput.outputTransfers
          /\ lastCall.after.output.returnData =
                 lastCall.before.output.returnData + lastCall.vmOutput.returnData
          /\ lastCall.after.outputStack = lastCall.before.outputStack
          /\ lastCall.after.meteringStack = lastCall.before.meteringStack
          /\ lastCall.after.metering.gasUsedByAccounts >=
                 lastCall.before.metering.gasUsedByAccounts

\* C31: every ExecuteOnDestContext and every ExecuteOnSameContext, however
\* it ends, leaves the state stack of each context (output, metering,
\* runtime, instances) at the depth it had on entry.
C31_StackDepthsAsAtEntry ==
    lastCall.status \in {"ok", "failed", "sameOk", "sameFailed"} =>
        /\ Len(lastCall.after.outputStack) = Len(lastCall.before.outputStack)
        /\ Len(lastCall.after.meteringStack) = Len(lastCall.before.meteringStack)
        /\ lastCall.after.runtimeDepth = lastCall.before.runtimeDepth
        /\ lastCall.after.instanceDepth = lastCall.before.instanceDepth

C10_GasNeverCreated ==
    /\ vmOut.output.returnCode = "Ok" =>
          vmOut.input.gasProvided >=
              vmOut.output.gasUsed + vmOut.output.outputTransfers.gasLimit
                + vmOut.output.gasRemaining
    /\ lastCall.status = "ok" =>
          lastCall.gasProvided >=
              lastCall.vmOutput.gasUsed + ProducedGasLimit(lastCall)
                + lastCall.vmOutput.gasRemaining

\* C11: when a nested call (ExecuteOnDestContext or ExecuteOnSameContext)
\* returns, the parent's gas left equals its gas left when the child was
\* entered, minus the gas provided to the child, plus the child's
\* gasRemaining.
C11_UnusedGasRestored ==
    lastCall.status \in {"ok", "failed", "sameOk", "sameFailed"} =>
        lastCall.gas.after =
            lastCall.gas.before - lastCall.gas.provided + lastCall.vmOutput.gasRemaining

\* C30: after a call through ExecuteOnSameContext that failed (the value
\* transfer failed or the execution returned an error) the output and
\* metering states of the parent, with their stacks, are what they were when
\* the call was entered: the value transfer and the changes of the child are
\* gone.
C30_FailedSameContextRestored ==
    lastCall.status \in {"sameOk", "sameFailed"} /\ lastCall.returnedErr =>
        lastCall.after = lastCall.before

(***************************************************************************)
(* Properties of the contract upgrade (specification SpecUpgrade).         *)
(***************************************************************************)

\* The upgrade attempt met the condition: the account is there, marked
\* upgradeable, and the caller is its owner.
UpgradePermitted(u) ==
    /\ u.found /\ u.account.exists
    /\ u.account.upgradeable /\ u.callerAddr = u.account.owner

\* C12 (as claimed): an upgrade, direct or indirect, replaces the code only
\* if the account is upgradeable and the caller is its owner; every other
\* attempt is rejected with ErrUpgradeNotAllowed and deploys nothing.
C12_UpgradeRejectedWithNotAllowed ==
    lastUpgrade.path # "none" =>
        /\ lastUpgrade.deployed => UpgradePermitted(lastUpgrade)
        /\ ~UpgradePermitted(lastUpgrade) =>
               lastUpgrade.err = ErrUpgradeNotAllowed /\ ~lastUpgrade.deployed

\* C12 (amended): the code is replaced only if the account is upgradeable and
\* the caller is its owner; every other attempt deploys nothing and is
\* rejected, with ErrUpgradeNotAllowed when the account was found, with
\* ErrNilContract when there is no such account, and with the error of the
\* account lookup when that fails.
C12_UpgradeOnlyByOwnerOfUpgradeable ==
    lastUpgrade.path # "none" =>
        /\ lastUpgrade.deployed => UpgradePermitted(lastUpgrade)
        /\ ~UpgradePermitted(lastUpgrade) =>
               /\ ~lastUpgrade.deployed
               /\ lastUpgrade.err =
                      IF ~lastUpgrade.found THEN ErrGetUserAccount
                      ELSE IF ~lastUpgrade.account.exists THEN ErrNilContract
                      ELSE ErrUpgradeNotAllowed

\* A contract that was upgraded before has an indirect upgrade by a caller
\* other than its owner rejected.
C12_Witness ==
    /\ lastUpgrade.path = "indirect"
    /\ lastUpgrade.account.exists /\ lastUpgrade.account.code > 0
    /\ lastUpgrade.account.upgradeable
    /\ lastUpgrade.callerAddr # lastUpgrade.account.owner
    /\ lastUpgrade.err = ErrUpgradeNotAllowed

(***************************************************************************)
(* Properties of the function-name policy (specification SpecFunction).    *)
(***************************************************************************)

\* C13: on every path that invokes an exported function, init runs only when
\* the input carries AllowInitFunction and callBack runs only when the call
\* type is AsynchronousCallBack; any other attempt fails and the function
\* body is not executed.
C13_InitAndCallBackOnlyWhenAllowed ==
    lastInvoke.path # "none" =>
        /\ lastInvoke.function = InitFunctionName /\ ~lastInvoke.allowInitFunction =>
               lastInvoke.err # ErrNil /\ ~lastInvoke.ran
        /\ lastInvoke.function = CallbackFunctionName
             /\ lastInvoke.callType # "AsynchronousCallBack" =>
               lastInvoke.err # ErrNil /\ ~lastInvoke.ran

\* The return code the output gives a call that ended with `error`: the
\* errors of a function that is not there map to FunctionNotFound.
ReturnCodeOfError(error) ==
    IF error = ErrNil THEN "Ok"
    ELSE IF error \in {ErrFuncNotFound, ErrInvalidFunction} THEN "FunctionNotFound"
    ELSE IF error \in {ErrInitFuncCalledInRun, ErrCallBackFuncCalledInRun} THEN "UserError"
    ELSE "ExecutionFailed"

\* C29: a call that names a function the module does not export, on the
\* top-level path and on the nested paths, runs nothing and ends with the
\* return code FunctionNotFound; the name reported is the name requested.
C29_NonExportedFunctionNotFound ==
    lastInvoke.path \in {"top", "dest", "same"} /\ lastInvoke.function \notin exports =>
        /\ ~lastInvoke.ran
        /\ ReturnCodeOfError(lastInvoke.err) = "FunctionNotFound"

(***************************************************************************)
(* Properties of the synchronous child calls (specification SpecSync).     *)
(***************************************************************************)

\* The mutations a hook can attempt.
MutationKinds == {"storage", "transfer", "esdt", "builtin", "deploy", "upgrade"}

\* The read-only flag is set exactly while the running code is inside a call
\* opened by executeReadOnly.
ReadOnlyFlagFollowsCalls == readOnly = InReadOnlyCall

\* C14: while the read-only flag is set (during executeReadOnly and every call
\* nested inside it), any storage mutation or outbound transfer that is
\* attempted raises ErrInvalidCallOnReadOnlyMode and has no effect.
C14_ReadOnlyRejectsMutations ==
    /\ ReadOnlyFlagFollowsCalls
    /\ lastOp.op # "none" /\ lastOp.mutation \in MutationKinds /\ lastOp.readOnly =>
           lastOp.err = ErrInvalidCallOnReadOnlyMode /\ ~lastOp.effect

C16_SyncCallNeedsSameShard ==
    lastOp.op \in {"dest", "same", "readOnly"} /\ ~lastOp.sameShard =>
        /\ lastOp.err = ErrSyncExecutionNotInSameShard
        /\ ~lastOp.ran /\ ~lastOp.effect
        /\ Len(syncCalls) = lastOp.depth

\* Inside a read-only call, a hook was refused a destination in another shard.
C16_Witness ==
    /\ lastOp.op \in {"dest", "same", "readOnly"} /\ ~lastOp.sameShard
    /\ lastOp.err = ErrSyncExecutionNotInSameShard
    /\ Len(syncCalls) = 1 /\ readOnly

\* C36: when executeReadOnly returns, with or without error, the read-only
\* flag has the value it had before the call, whether a child call was
\* opened or the call was served without one.
C36_ReadOnlyFlagRestored ==
    [][/\ (syncCalls # <<>> /\ syncCalls' = SubSeq(syncCalls, 1, Len(syncCalls) - 1)
             /\ Last(syncCalls).hook \in ReadOnlyHooks) =>
               readOnly' = Last(syncCalls).wasReadOnly
       /\ (lastOp' # lastOp /\ lastOp'.op \in ReadOnlyHooks /\ syncCalls' = syncCalls) =>
               readOnly' = readOnly]_vars

(***************************************************************************)
(* Properties of the instance stack (specification SpecStack).             *)
(***************************************************************************)

GasArguments == (0 - 2^(GasBits - 1)) .. (2^(GasBits - 1) - 1)
ToUint64(gas) == gas % (2^GasBits)

\* The two costs of the gas schedule the hooks read.
GasSchedules == [AsyncCallStep : 0..1, AsyncCallbackGasLock : 0..1]
minAsyncCallCost(schedule) ==
    2 * schedule.AsyncCallStep + schedule.AsyncCallbackGasLock

HasLegacyCall(registered) == \E i \in 1..Len(registered) : registered[i].legacy

\* A legacy registration that does not look at what is registered already.
RegisterLegacyAsyncCallUnlimited(registered, hook, gasLeft, schedule) ==
    IF gasLeft < minAsyncCallCost(schedule)
    THEN [calls |-> registered, err |-> ErrNotEnoughGas]
    ELSE [calls |-> Append(registered, [hook |-> hook, legacy |-> TRUE]), err |-> ErrNil]
\* async.RegisterLegacyAsyncCall(dest, data, value): at most one legacy call;
\* the call gets the gas that is left, which has to cover the minimal cost.
RegisterLegacyAsyncCall(registered, hook, gasLeft, schedule) ==
    IF HasLegacyCall(registered)
    THEN [calls |-> registered, err |-> ErrOnlyOneLegacyAsyncCallAllowed]
    ELSE IF gasLeft < minAsyncCallCost(schedule)
    THEN [calls |-> registered, err |-> ErrNotEnoughGas]
    ELSE [calls |-> Append(registered, [hook |-> hook, legacy |-> TRUE]), err |-> ErrNil]

\* async.RegisterAsyncCall(groupID, asyncCall): the gas limit of the call has
\* to cover the minimal cost and is withheld from the gas that is left.
RegisterAsyncCall(registered, hook, GasLimit, gasLeft, schedule) ==
    IF GasLimit < minAsyncCallCost(schedule) \/ GasLimit > gasLeft
    THEN [calls |-> registered, err |-> ErrNotEnoughGas]
    ELSE [calls |-> Append(registered, [hook |-> hook, legacy |-> FALSE]), err |-> ErrNil]

\* WithFault(error, failExecution): an error fails the execution when the
\* policy flag says so.
WithFault(error, failExecution) ==
    IF error # ErrNil /\ failExecution THEN BreakpointSignalError ELSE BreakpointNone

RegisterRecord(hook, gasLimit, schedule, before, result, breakpointValue) ==
    [hook |-> hook, gasLimit |-> gasLimit,
     minAsyncCallCost |-> minAsyncCallCost(schedule),
     before |-> before, err |-> result.err, breakpoint |-> breakpointValue]

\* What the three legacy hooks do with the result of RegisterLegacyAsyncCall:
\* ErrNotEnoughGas raises the OutOfGas breakpoint, any other error is a fault.
LegacyHookEnds(hook, gasLimit, schedule, result, failExecution) ==
    LET breakpointValue ==
            IF result.err = ErrNotEnoughGas THEN BreakpointOutOfGas
            ELSE WithFault(result.err, failExecution) IN
    /\ registeredCalls' = result.calls
    /\ runtimeBreakpoint' = breakpointValue
    /\ lastRegister' = RegisterRecord(hook, gasLimit, schedule, registeredCalls,
                                      result, breakpointValue)

\* The hook createAsyncCall.
CreateAsyncCallWithTypedArgs(gas, gasLeft, schedule, failExecution) ==
    /\ runtimeBreakpoint = BreakpointNone
    /\ Len(registeredCalls) < MaxRegistered
    /\ LET result == RegisterAsyncCall(registeredCalls, "createAsyncCall",
                                       ToUint64(gas), gasLeft, schedule)
           breakpointValue == WithFault(result.err, failExecution) IN
       /\ registeredCalls' = result.calls
       /\ runtimeBreakpoint' = breakpointValue
       /\ lastRegister' = RegisterRecord("createAsyncCall", gas, schedule,
                                         registeredCalls, result, breakpointValue)
    /\ UNCHANGED notRegister

\* The hook asyncCall: the arguments are read from memory (`memLoadOk`), then
\* the legacy call is registered.  The hook has no gas limit argument.
AsyncCall(memLoadOk, gasLeft, schedule, failExecution) ==
    /\ runtimeBreakpoint = BreakpointNone
    /\ Len(registeredCalls) < MaxRegistered
    /\ LET result == IF memLoadOk
                     THEN RegisterLegacyAsyncCall(registeredCalls, "asyncCall",
                                                  gasLeft, schedule)
                     ELSE [calls |-> registeredCalls, err |-> "MemLoad error"] IN
       LegacyHookEnds("asyncCall", gasLeft, schedule, result, failExecution)
    /\ UNCHANGED notRegister

\* The hook upgradeContract: the gas limit is compared with the minimal cost as an
\* unsigned number, then the legacy call is registered.
upgradeContract(gasLimit, gasLeft, schedule, failExecution) ==
    /\ runtimeBreakpoint = BreakpointNone
    /\ Len(registeredCalls) < MaxRegistered
    /\ IF ToUint64(gasLimit) < minAsyncCallCost(schedule)
       THEN /\ runtimeBreakpoint' = BreakpointOutOfGas
            /\ lastRegister' = RegisterRecord("upgradeContract", gasLimit, schedule, registeredCalls,
                                              [err |-> ErrNil], BreakpointOutOfGas)
            /\ UNCHANGED registeredCalls
       ELSE LegacyHookEnds("upgradeContract", gasLimit, schedule,
                           RegisterLegacyAsyncCall(registeredCalls, "upgradeContract",
                                                   gasLeft, schedule),
                           failExecution)
    /\ UNCHANGED notRegister

\* The hook deleteContract: the gas limit is compared with the minimal cost as an
\* unsigned number, then the legacy call is registered.
deleteContract(gasLimit, gasLeft, schedule, failExecution) ==
    /\ runtimeBreakpoint = BreakpointNone
    /\ Len(registeredCalls) < MaxRegistered
    /\ IF ToUint64(gasLimit) < minAsyncCallCost(schedule)
       THEN /\ runtimeBreakpoint' = BreakpointOutOfGas
            /\ lastRegister' = RegisterRecord("deleteContract", gasLimit, schedule, registeredCalls,
                                              [err |-> ErrNil], BreakpointOutOfGas)
            /\ UNCHANGED registeredCalls
       ELSE LegacyHookEnds("deleteContract", gasLimit, schedule,
                           RegisterLegacyAsyncCall(registeredCalls, "deleteContract",
                                                   gasLeft, schedule),
                           failExecution)
    /\ UNCHANGED notRegister

\* The execution ends and the next one starts with a fresh async context and
\* no breakpoint.
StartExecution ==
    /\ lastRegister # NoRegister
    /\ registeredCalls' = <<>>
    /\ runtimeBreakpoint' = BreakpointNone
    /\ lastRegister' = NoRegister
    /\ UNCHANGED notRegister

NextRegister ==
    \/ \E gas \in GasArguments, gasLeft \in 0..MaxGasLeft, schedule \in GasSchedules,
          failExecution \in BOOLEAN :
          \/ CreateAsyncCallWithTypedArgs(gas, gasLeft, schedule, failExecution)
          \/ upgradeContract(gas, gasLeft, schedule, failExecution)
          \/ deleteContract(gas, gasLeft, schedule, failExecution)
    \/ \E memLoadOk, failExecution \in BOOLEAN, gasLeft \in 0..MaxGasLeft,
          schedule \in GasSchedules :
          AsyncCall(memLoadOk, gasLeft, schedule, failExecution)
    \/ StartExecution

InitRegister == InitAsync

SpecRegister == InitRegister /\ [][NextRegister]_vars

(***************************************************************************)
(* Part IX: deployments (execution.go).                                    *)
(***************************************************************************)

\* blockchain.NewAddress: the address derived from the deployer and its nonce.
NewAddress(creatorNonce) == creatorNonce + 1

\* The steps a direct deployment can fail at ("none": it succeeds).
DirectDeploySteps == {"address", "gas", "code", "init", "none"}

DirectDeployError(step) ==
    IF step = "address" THEN "NewAddress error"
    ELSE IF step = "gas" THEN ErrNotEnoughGas
    ELSE IF step = "code" THEN "ErrContractInvalid"
    ELSE IF step = "init" THEN "init error"
    ELSE ErrNil

\* doRunSmartContractCreate: a transaction that deploys a contract.  An error
\* at any step gives the output of CreateVMOutputInCaseOfError, which holds
\* nothing of the execution.
doRunSmartContractCreate(step) ==
    /\ deployFrames = 0
    /\ LET address == NewAddress(deployerNonce)
           error == DirectDeployError(step) IN
       /\ outputCode' = IF error = ErrNil THEN {address} ELSE {}
       /\ succeeded' = IF error = ErrNil THEN succeeded \cup {address} ELSE succeeded
       /\ lastDeploy' = [path |-> "direct", step |-> step, err |-> error,
                         newAddress |-> address,
                         address |-> IF error = ErrNil THEN address ELSE 0,
                         nonceBefore |-> deployerNonce]
    /\ outputCodeStack' = <<>>
    /\ UNCHANGED <<deployFrames, deployerNonce>>
    /\ UNCHANGED notDeploy

\* A contract is called through ExecuteOnDestContext and the output state is
\* pushed; the called contract runs.
PushOutputState ==
    /\ deployFrames < MaxDeployDepth
    /\ outputCodeStack' = Append(outputCodeStack, outputCode)
    /\ deployFrames' = deployFrames + 1
    /\ lastDeploy' = [path |-> "call"]
    /\ UNCHANGED <<outputCode, deployerNonce, succeeded>>
    /\ UNCHANGED notDeploy

\* The steps a deployment by a contract can fail at ("none": it succeeds).
\* "asyncInit", "transfer" and "init" are inside the call of the init function
\* through ExecuteOnDestContext, "complete" is CompleteChildConditional.
IndirectDeploySteps ==
    {"gas", "readOnly", "address", "exists", "asyncInit", "transfer", "code", "init",
     "complete", "none"}

IndirectDeployError(step) ==
    IF step = "gas" THEN ErrNotEnoughGas
    ELSE IF step = "readOnly" THEN ErrInvalidCallOnReadOnlyMode
    ELSE IF step = "address" THEN "NewAddress error"
    ELSE IF step = "exists" THEN "ErrDeploymentOverExistingAccount"
    ELSE IF step = "asyncInit" THEN "InitStateFromInput error"
    ELSE IF step = "transfer" THEN "TransferValueOnly error"
    ELSE IF step = "code" THEN "ErrContractInvalid"
    ELSE IF step = "init" THEN "init error"
    ELSE IF step = "complete" THEN "CompleteChildConditional error"
    ELSE ErrNil

\* output.DeleteOutputAccount: the account leaves the active output state.
DeleteOutputAccount(code, address) == code \ {address}

\* CreateNewContract, called by the hook createContract.  The code is staged
\* with DeployCode, the init function is called through ExecuteOnDestContext,
\* and an error after DeployCode deletes the output account.  The call of init
\* pushes the output state; it pops it when it ends, except when
\* async.InitStateFromInput fails: then it returns with the state still on
\* the stack.
createContract(step) ==
    /\ deployerNonce < MaxNonce
    /\ Len(outputCodeStack) <= MaxDeployDepth
    /\ LET address == NewAddress(deployerNonce)
           error == IndirectDeployError(step)
           staged == outputCode \cup {address}
           beforeDeployCode == step \in {"gas", "readOnly", "address", "exists"} IN
       /\ outputCode' = IF beforeDeployCode THEN outputCode
                        ELSE IF error # ErrNil THEN DeleteOutputAccount(staged, address)
                        ELSE staged
       /\ outputCodeStack' = IF step = "asyncInit" THEN Append(outputCodeStack, staged)
                             ELSE outputCodeStack
       /\ deployerNonce' = IF error = ErrNil THEN deployerNonce + 1 ELSE deployerNonce
       /\ succeeded' = IF error = ErrNil THEN succeeded \cup {address} ELSE succeeded
       /\ lastDeploy' = [path |-> "indirect", step |-> step, err |-> error,
                         newAddress |-> address,
                         address |-> IF error = ErrNil THEN address ELSE 0,
                         nonceBefore |-> deployerNonce]
    /\ UNCHANGED deployFrames
    /\ UNCHANGED notDeploy

\* finishExecuteOnDestContext of the called contract: the output state on top
\* of the stack is popped; the active state is merged into it when the call
\* succeeded and replaced by it when the call failed.
PopOutputState(ok) ==
    /\ deployFrames > 0
    /\ outputCode' = IF ok THEN Last(outputCodeStack) \cup outputCode
                     ELSE Last(outputCodeStack)
    /\ outputCodeStack' = Front(outputCodeStack)
    /\ deployFrames' = deployFrames - 1
    /\ UNCHANGED <<deployerNonce, succeeded, lastDeploy>>
    /\ UNCHANGED notDeploy

\* The transaction ends; host.InitState starts the next one.
EndTransaction ==
    /\ deployFrames = 0
    /\ lastDeploy # NoDeploy
    /\ outputCode' = {}
    /\ outputCodeStack' = <<>>
    /\ succeeded' = {}
    /\ lastDeploy' = NoDeploy
    /\ UNCHANGED <<deployFrames, deployerNonce>>
    /\ UNCHANGED notDeploy

NextDeploy ==
    \/ \E step \in DirectDeploySteps : doRunSmartContractCreate(step)
    \/ PushOutputState
    \/ \E step \in IndirectDeploySteps : createContract(step)
    \/ \E ok \in BOOLEAN : PopOutputState(ok)
    \/ EndTransaction

InitDeploy == InitAsync

SpecDeploy == InitDeploy /\ [][NextDeploy]_vars

(***************************************************************************)
(* Part X: the state stack of a context (managed types, blockchain).       *)
(***************************************************************************)

\* The operations of a context with a state stack, as the context of the big
\* integers has them: InitState empties the active state, Put stores a value
\* under the next handle (handles count from 0), GetOne looks a handle up,
\* PushState copies the active state onto the stack, PopSetActiveState makes
\* the top of the stack the active state, PopDiscard drops the top of the
\* stack; both pops leave a context with an empty stack as it is.
ContextInitState(context) == [context EXCEPT !.values = <<>>]

Put(context, value) == [context EXCEPT !.values = Append(@, value)]

GetOne(context, handle) ==
    IF handle \in 0 .. Len(context.values) - 1
    THEN [value |-> context.values[handle + 1], err |-> ErrNil]
    ELSE [value |-> 0, err |-> ErrNoBigIntUnderThisHandle]

PushState(context) == [context EXCEPT !.stateStack = Append(@, context.values)]

\* A pop that drops the top of the stack and keeps the active state.
PopSetActiveStateKeepsActive(context) ==
    IF context.stateStack = <<>> THEN context
    ELSE [context EXCEPT !.stateStack = Front(@)]
PopSetActiveState(context) ==
    IF context.stateStack = <<>> THEN context
    ELSE [values |-> Last(context.stateStack), stateStack |-> Front(context.stateStack)]

PopDiscard(context) ==
    IF context.stateStack = <<>> THEN context
    ELSE [context EXCEPT !.stateStack = Front(@)]

\* The context driven through its operations, in any order.
BigIntInitState ==
    /\ bigIntContext' = ContextInitState(bigIntContext)
    /\ lastContextOp' = [op |-> "InitState", before |-> bigIntContext]
    /\ UNCHANGED <<managedTypes, blockchain, openFrames, lastFrame>>
    /\ UNCHANGED notStateStack

BigIntPut(value) ==
    /\ Len(bigIntContext.values) < MaxHandles
    /\ bigIntContext' = Put(bigIntContext, value)
    /\ lastContextOp' = [op |-> "Put", before |-> bigIntContext]
    /\ UNCHANGED <<managedTypes, blockchain, openFrames, lastFrame>>
    /\ UNCHANGED notStateStack

BigIntPushState ==
    /\ Len(bigIntContext.stateStack) < MaxStack
    /\ bigIntContext' = PushState(bigIntContext)
    /\ lastContextOp' = [op |-> "PushState", before |-> bigIntContext]
    /\ UNCHANGED <<managedTypes, blockchain, openFrames, lastFrame>>
    /\ UNCHANGED notStateStack

BigIntPopSetActiveState ==
    /\ bigIntContext' = PopSetActiveState(bigIntContext)
    /\ lastContextOp' = [op |-> "PopSetActiveState", before |-> bigIntContext]
    /\ UNCHANGED <<managedTypes, blockchain, openFrames, lastFrame>>
    /\ UNCHANGED notStateStack

BigIntPopDiscard ==
    /\ bigIntContext' = PopDiscard(bigIntContext)
    /\ lastContextOp' = [op |-> "PopDiscard", before |-> bigIntContext]
    /\ UNCHANGED <<managedTypes, blockchain, openFrames, lastFrame>>
    /\ UNCHANGED notStateStack

NextBigInt ==
    \/ BigIntInitState
    \/ \E value \in BigValues : BigIntPut(value)
    \/ BigIntPushState
    \/ BigIntPopSetActiveState
    \/ BigIntPopDiscard

InitBigInt == InitAsync

SpecBigInt == InitBigInt /\ [][NextBigInt]_vars

\* The managed types and the blockchain context around nested calls.

\* The running contract puts a value into the managed types.
ManagedTypesPut(value) ==
    /\ Len(managedTypes.values) < MaxHandles
    /\ managedTypes' = Put(managedTypes, [owner |-> Len(openFrames), value |-> value])
    /\ lastFrame' = [step |-> "put"]
    /\ UNCHANGED <<blockchain, openFrames, bigIntContext, lastContextOp>>
    /\ UNCHANGED notStateStack

\* The running contract changes the blockchain state (a nonce, a builtin
\* function); the changes are numbered.
BlockchainChange ==
    /\ Cardinality(blockchain.values) < MaxEffects
    /\ blockchain' = [blockchain EXCEPT
                         !.values = @ \cup {Cardinality(blockchain.values) + 1}]
    /\ lastFrame' = [step |-> "change"]
    /\ UNCHANGED <<managedTypes, openFrames, bigIntContext, lastContextOp>>
    /\ UNCHANGED notStateStack

ReturnRecord(mode, returnedErr, managedAtEntry, blockchainAtEntry) ==
    [step |-> "return", mode |-> mode, returnedErr |-> returnedErr,
     managedAtEntry |-> managedAtEntry, blockchainAtEntry |-> blockchainAtEntry]

\* ExecuteOnDestContext up to the point where the called contract runs:
\* blockchain.PushState, then (no builtin function) managedTypes.PushState and
\* InitState.  `stop` is "builtin" when the builtin function fails (the
\* blockchain state is popped), "asyncInit" when async.InitStateFromInput
\* fails (the function returns with the managed types still pushed, and the
\* caller pops the blockchain state), "none" otherwise.
EnterDestContext(stop) ==
    /\ Len(openFrames) < MaxFrames
    /\ Len(managedTypes.stateStack) < MaxFrames
    /\ LET pushedBlockchain == PushState(blockchain)
           pushedManaged == ContextInitState(PushState(managedTypes)) IN
       IF stop = "builtin"
       THEN /\ blockchain' = PopSetActiveState(pushedBlockchain)
            /\ lastFrame' = ReturnRecord("dest", TRUE, managedTypes, blockchain)
            /\ UNCHANGED <<managedTypes, openFrames>>
       ELSE IF stop = "asyncInit"
       THEN /\ blockchain' = PopSetActiveState(pushedBlockchain)
            /\ managedTypes' = pushedManaged
            /\ lastFrame' = ReturnRecord("dest", TRUE, managedTypes, blockchain)
            /\ UNCHANGED openFrames
       ELSE /\ blockchain' = pushedBlockchain
            /\ managedTypes' = pushedManaged
            /\ openFrames' = Append(openFrames, [mode |-> "dest",
                                                 managedAtEntry |-> managedTypes,
                                                 blockchainAtEntry |-> blockchain])
            /\ lastFrame' = [step |-> "enter"]
    /\ UNCHANGED <<bigIntContext, lastContextOp>>
    /\ UNCHANGED notStateStack

\* ExecuteOnSameContext up to the point where the called code runs: a builtin
\* function is refused before anything is pushed; otherwise
\* managedTypes.PushState, InitState and blockchain.PushState.
EnterSameContext(builtin) ==
    /\ Len(openFrames) < MaxFrames
    /\ Len(managedTypes.stateStack) < MaxFrames
    /\ IF builtin
       THEN /\ lastFrame' = ReturnRecord("same", TRUE, managedTypes, blockchain)
            /\ UNCHANGED <<managedTypes, blockchain, openFrames>>
       ELSE /\ managedTypes' = ContextInitState(PushState(managedTypes))
            /\ blockchain' = PushState(blockchain)
            /\ openFrames' = Append(openFrames, [mode |-> "same",
                                                 managedAtEntry |-> managedTypes,
                                                 blockchainAtEntry |-> blockchain])
            /\ lastFrame' = [step |-> "enter"]
    /\ UNCHANGED <<bigIntContext, lastContextOp>>
    /\ UNCHANGED notStateStack

\* The nested call through ExecuteOnDestContext is over:
\* finishExecuteOnDestContext pops the managed types, ExecuteOnDestContext
\* pops the blockchain state, to the active state when there is an error.
ReturnFromDestContext(returnedErr) ==
    /\ openFrames # <<>>
    /\ Last(openFrames).mode = "dest"
    /\ managedTypes' = PopSetActiveState(managedTypes)
    /\ blockchain' = IF returnedErr THEN PopSetActiveState(blockchain)
                     ELSE PopDiscard(blockchain)
    /\ lastFrame' = ReturnRecord("dest", returnedErr, Last(openFrames).managedAtEntry,
                                 Last(openFrames).blockchainAtEntry)
    /\ openFrames' = Front(openFrames)
    /\ UNCHANGED <<bigIntContext, lastContextOp>>
    /\ UNCHANGED notStateStack

\* The nested call through ExecuteOnSameContext is over: the deferred
\* finishExecuteOnSameContext(err), whose argument was evaluated while err was
\* nil, restores the states only when the return code of the output is not
\* Ok (`returnCodeOk`); `returnedErr` is what ExecuteOnSameContext returns.
ReturnFromSameContext(returnedErr, returnCodeOk) ==
    /\ openFrames # <<>>
    /\ Last(openFrames).mode = "same"
    /\ ~returnedErr => returnCodeOk
    /\ managedTypes' = PopSetActiveState(managedTypes)
    /\ blockchain' = IF ~returnCodeOk THEN PopSetActiveState(blockchain)
                     ELSE PopDiscard(blockchain)
    /\ lastFrame' = ReturnRecord("same", returnedErr, Last(openFrames).managedAtEntry,
                                 Last(openFrames).blockchainAtEntry)
    /\ openFrames' = Front(openFrames)
    /\ UNCHANGED <<bigIntContext, lastContextOp>>
    /\ UNCHANGED notStateStack

\* The transaction is over; host.InitState starts the next one.
EndFrames ==
    /\ openFrames = <<>>
    /\ lastFrame # NoFrame
    /\ managedTypes' = EmptyContext
    /\ blockchain' = [values |-> {}, stateStack |-> <<>>]
    /\ lastFrame' = NoFrame
    /\ UNCHANGED <<openFrames, bigIntContext, lastContextOp>>
    /\ UNCHANGED notStateStack

NextFrames ==
    \/ \E value \in BigValues : ManagedTypesPut(value)
    \/ BlockchainChange
    \/ \E stop \in {"builtin", "asyncInit", "none"} : EnterDestContext(stop)
    \/ \E builtin \in BOOLEAN : EnterSameContext(builtin)
    \/ \E returnedErr \in BOOLEAN : ReturnFromDestContext(returnedErr)
    \/ \E returnedErr, returnCodeOk \in BOOLEAN : ReturnFromSameContext(returnedErr, returnCodeOk)
    \/ EndFrames

InitFrames == InitAsync

SpecFrames == InitFrames /\ [][NextFrames]_vars

(***************************************************************************)
(* Part XI: the hooks on the return data.                                  *)
(***************************************************************************)

\* The host as these hooks see it: the return data of the output, the gas
\* used, the breakpoint.
HookHost == [returnData |-> returnData, gas |-> hookGas, breakpoint |-> hookBreakpoint]

\* output.ClearReturnData(), output.RemoveReturnData(index), output.Finish(data).
ClearReturnData(data) == <<>>

RemoveReturnData(data, index) ==
    IF index \in 0 .. Len(data) - 1
    THEN SubSeq(data, 1, index) \o SubSeq(data, index + 2, Len(data))
    ELSE data

\* A cleanReturnData that checks that there is return data, as getReturnData
\* checks its index.
CleanReturnDataWithHostChecked(host) ==
    [returnData |-> ClearReturnData(host.returnData),
     gas |-> host.gas + 1,
     breakpoint |-> IF host.returnData = <<>>
                    THEN WithFault("ErrInvalidArgument", TRUE)
                    ELSE host.breakpoint]
\* CleanReturnDataWithHost: the gas of the hook is charged (an unconditional
\* charge), the return data is cleared.
CleanReturnDataWithHost(host) ==
    [host EXCEPT !.gas = @ + 1, !.returnData = ClearReturnData(@)]

\* DeleteFromReturnDataWithHost: the gas is charged, the item is removed when
\* resultID is below the number of items.
DeleteFromReturnDataWithHost(host, resultID) ==
    [host EXCEPT !.gas = @ + 1,
                 !.returnData = IF resultID < Len(host.returnData)
                                THEN RemoveReturnData(@, resultID)
                                ELSE @]

HookRecord(hook) == [hook |-> hook, previous |-> lastHook.hook, before |-> returnData]

HookEnds(hook, host) ==
    /\ returnData' = host.returnData
    /\ hookGas' = host.gas
    /\ hookBreakpoint' = host.breakpoint
    /\ lastHook' = HookRecord(hook)
    /\ UNCHANGED notReturnData

\* The hook finish: UseGasBounded, MemLoad, output.Finish; an error of the
\* first two is a fault.
FinishData(data, gasOk, memLoadOk, failExecution) ==
    /\ hookBreakpoint = BreakpointNone
    /\ hookGas < MaxHookGas
    /\ Len(returnData) < MaxReturnData
    /\ IF ~gasOk
       THEN HookEnds("finish", [HookHost EXCEPT
                                    !.breakpoint = WithFault(ErrNotEnoughGas, failExecution)])
       ELSE IF ~memLoadOk
       THEN HookEnds("finish", [HookHost EXCEPT
                                    !.gas = @ + 1,
                                    !.breakpoint = WithFault("ErrMemLoad", failExecution)])
       ELSE HookEnds("finish", [HookHost EXCEPT !.gas = @ + 1,
                                                !.returnData = Append(@, data)])

CleanReturnData ==
    /\ hookBreakpoint = BreakpointNone
    /\ hookGas < MaxHookGas
    /\ HookEnds("cleanReturnData", CleanReturnDataWithHost(HookHost))

DeleteFromReturnData(resultID) ==
    /\ hookBreakpoint = BreakpointNone
    /\ hookGas < MaxHookGas
    /\ HookEnds("deleteFromReturnData", DeleteFromReturnDataWithHost(HookHost, resultID))

\* The execution is over; the next one starts with a new output.
EndOfHooks ==
    /\ lastHook # NoHook
    /\ returnData' = <<>>
    /\ hookGas' = 0
    /\ hookBreakpoint' = BreakpointNone
    /\ lastHook' = NoHook
    /\ UNCHANGED notReturnData

NextReturnData ==
    \/ \E data \in ReturnItems, gasOk, memLoadOk, failExecution \in BOOLEAN :
           FinishData(data, gasOk, memLoadOk, failExecution)
    \/ CleanReturnData
    \/ \E resultID \in -1 .. MaxReturnData : DeleteFromReturnData(resultID)
    \/ EndOfHooks

InitReturnData == InitAsync

SpecReturnData == InitReturnData /\ [][NextReturnData]_vars

(***************************************************************************)
(* Part XII: contract deletion, direct (doRunSmartContractDelete) and      *)
(* indirect (executeDelete, reached through execute).                      *)
(***************************************************************************)

DeleteRecord(path, vmInput, lookupOk, error, deleted) ==
    [path |-> path, callerAddr |-> vmInput.callerAddr,
     recipientAddr |-> vmInput.recipientAddr,
     account |-> userAccounts[vmInput.recipientAddr], found |-> lookupOk,
     err |-> error, deleted |-> deleted]

\* doRunSmartContractDelete: RunSmartContractCall of the function
\* deleteContract.  The permission check of the upgrade decides; the output
\* is the error output, or the output with the recipient appended to its
\* deleted accounts.
doRunSmartContractDelete(caller, recipient, lookupOk) ==
    LET input == [callerAddr |-> caller, recipientAddr |-> recipient]
        error == checkUpgradePermission(input, lookupOk) IN
    /\ lastDelete' = DeleteRecord("direct", input, lookupOk, error, error = ErrNil)
    /\ UNCHANGED notDelete

\* executeDelete: a running contract (`caller`) reaches execute() with the
\* function deleteContract.  doRunSmartContractDelete is called, the VMOutput
\* it returns is dropped and nil is returned.  `outputShared` tells whether
\* the VMOutput that output.GetVMOutput() handed to doRunSmartContractDelete
\* is part of what the final output is built from.
executeDelete(caller, dest, lookupOk, outputShared) ==
    LET input == [callerAddr |-> caller, recipientAddr |-> dest]
        permission == checkUpgradePermission(input, lookupOk) IN
    /\ userAccounts[caller].exists
    /\ lastDelete' = DeleteRecord("indirect", input, lookupOk, ErrNil,
                                  permission = ErrNil /\ outputShared)
    /\ UNCHANGED notDelete

NextDelete ==
    \/ \E caller \in Accounts, recipient \in Addresses, lookupOk \in BOOLEAN :
          doRunSmartContractDelete(caller, recipient, lookupOk)
    \/ \E caller, dest \in Addresses, lookupOk, outputShared \in BOOLEAN :
          executeDelete(caller, dest, lookupOk, outputShared)

InitDelete == InitUpgrade

SpecDelete == InitDelete /\ [][NextDelete]_vars

(***************************************************************************)
(* Part XIII: top-level calls one after another on one host.               *)
(***************************************************************************)

\* initContexts: ClearContextStateStack, then InitState of every context.
initContexts(state) == CleanState

\* The VMOutput of a call: return code, return data of the output context,
\* deleted accounts, and the log entry createLogEntryFromErrors makes of the
\* errors the runtime context holds.
TopOutput(returnCode, data, deleted, state) ==
    [returnCode |-> returnCode, returnData |-> data, deleted |-> deleted,
     logs |-> state.errors]

TopRecord(kind, found, out) ==
    [kind |-> kind, number |-> topCalls + 1, found |-> found, output |-> out]

\* The body of a call, a creation or an upgrade, after InitState: it may
\* finish return data (`wrote`), it may fail, which records an error and
\* gives the error output, and a nested call may leave states on the stacks
\* (`leftover`).
RunBody(kind, wrote, ok, leftover) ==
    LET found == initContexts(hostState)
        after == [returnData |-> IF wrote THEN {topCalls + 1} ELSE {},
                  errors |-> IF ok THEN {} ELSE {topCalls + 1},
                  stackDepth |-> IF leftover THEN 1 ELSE 0] IN
    /\ topCalls < MaxTopCalls
    /\ topCalls' = topCalls + 1
    /\ hostState' = after
    /\ lastTop' = TopRecord(kind, found,
                            IF ok THEN TopOutput("Ok", after.returnData, FALSE, after)
                            ELSE TopOutput("ExecutionFailed", {}, FALSE, after))
    /\ UNCHANGED notReset

\* RunSmartContractCall, function other than upgradeContract and
\* deleteContract: doRunSmartContractCall.
DispatchCall(wrote, ok, leftover) ==
    /\ topCalls < MaxTopCalls
    /\ RunBody("call", wrote, ok, leftover)

\* RunSmartContractCall, function upgradeContract: doRunSmartContractUpgrade.
DispatchUpgrade(wrote, ok, leftover) ==
    /\ topCalls < MaxTopCalls
    /\ RunBody("upgrade", wrote, ok, leftover)

\* RunSmartContractCreate: doRunSmartContractCreate.
DispatchCreate(wrote, ok, leftover) ==
    /\ topCalls < MaxTopCalls
    /\ RunBody("create", wrote, ok, leftover)

\* RunSmartContractCall, function deleteContract: doRunSmartContractDelete,
\* which starts with the permission check and does not call InitState; its
\* output is the error output or output.GetVMOutput() with the recipient
\* deleted.
DispatchDelete(permitted) ==
    /\ topCalls < MaxTopCalls
    /\ topCalls' = topCalls + 1
    /\ lastTop' = TopRecord("delete", hostState,
                            IF permitted
                            THEN TopOutput("Ok", hostState.returnData, TRUE, hostState)
                            ELSE TopOutput("ExecutionFailed", {}, FALSE, hostState))
    /\ UNCHANGED hostState
    /\ UNCHANGED notReset

NextReset ==
    \/ \E wrote, ok, leftover \in BOOLEAN : DispatchCall(wrote, ok, leftover)
    \/ \E wrote, ok, leftover \in BOOLEAN : DispatchUpgrade(wrote, ok, leftover)
    \/ \E wrote, ok, leftover \in BOOLEAN : DispatchCreate(wrote, ok, leftover)
    \/ \E permitted \in BOOLEAN : DispatchDelete(permitted)

InitReset == InitAsync

SpecReset == InitReset /\ [][NextReset]_vars

(***************************************************************************)
(* Part XIV: the hook transferESDTNFTExecute.                              *)
(***************************************************************************)

\* The host as the hook sees it: the blockchain state, the active state of
\* the output, the breakpoint, the error of the last step.
EsdtHost ==
    [ledger |-> tokenLedger, output |-> esdtOutput,
     breakpoint |-> esdtBreakpoint, err |-> ErrNil]

\* host.Blockchain().GetSnapshot() and RevertToSnapshot(snapshot).
GetSnapshot(ledger) == Len(ledger)

RevertToSnapshot(ledger, snapshot) == SubSeq(ledger, 1, snapshot)

\* output.TransferESDT(dest, sender, transfers, callInput): the built-in
\* function moves the tokens in the blockchain state, and the output context
\* records the transfer in its active state.
TransferESDT(host, transferOk) ==
    IF transferOk
    THEN [host EXCEPT !.ledger = Append(@, "transfer"),
                      !.output = Append(@, "transfer"),
                      !.err = ErrNil]
    ELSE [host EXCEPT !.err = "ErrFailedTransfer"]

\* host.ExecuteOnDestContext as the hook sees it: what the child did to the
\* blockchain state stays there; finishExecuteOnDestContext merges the output
\* of the child into the active state of the caller when the child succeeded
\* and sets the state of the caller back to what it was when the child was
\* entered when it failed.
ExecuteOnDestContextOfTransfer(host, childOk, childChanged) ==
    LET ledger == IF childChanged THEN Append(host.ledger, "child") ELSE host.ledger IN
    IF childOk
    THEN [host EXCEPT !.ledger = ledger, !.output = Append(@, "child"), !.err = ErrNil]
    ELSE [host EXCEPT !.ledger = ledger, !.err = "ErrExecutionFailed"]

\* executeOnDestContextFromAPI: an error of ExecuteOnDestContext is returned,
\* else the one of async.CompleteChildConditional.
executeOnDestContextFromAPI(host, childOk, childChanged, completeOk) ==
    LET executed == ExecuteOnDestContextOfTransfer(host, childOk, childChanged) IN
    IF executed.err # ErrNil THEN executed
    ELSE IF ~completeOk THEN [executed EXCEPT !.err = "ErrCompleteChild"]
    ELSE executed

TransferRecord(hook, result, executed, executeErr) ==
    [hook |-> hook, result |-> result, executed |-> executed, executeErr |-> executeErr,
     ledgerBefore |-> tokenLedger, outputBefore |-> esdtOutput]

TransferEnds(hook, host, result, executed) ==
    /\ tokenLedger' = host.ledger
    /\ esdtOutput' = host.output
    /\ esdtBreakpoint' = host.breakpoint
    /\ lastTransfer' = TransferRecord(hook, result, executed, host.err)
    /\ UNCHANGED notEsdt

\* TransferESDTNFTExecuteWithTypedArgs of ElrondApi. prepareOk: the input of
\* the call could be prepared; execution: dest is a smart contract in the
\* shard of the sender.
TransferESDTNFTExecuteWithTypedArgs(hasFunction, prepareOk, transferOk, execution, childOk, childChanged, completeOk, failExecution) ==
    /\ esdtBreakpoint = BreakpointNone
    /\ Len(tokenLedger) + 2 <= MaxLedger
    /\ Len(esdtOutput) + 2 <= MaxLedger
    /\ LET snapshotBeforeTransfer == GetSnapshot(tokenLedger)
           transferred == TransferESDT(EsdtHost, transferOk)
           executed == executeOnDestContextFromAPI(transferred, childOk, childChanged,
                                                   completeOk) IN
       IF hasFunction /\ ~prepareOk
       THEN TransferEnds("transferESDTNFTExecute",
                         [EsdtHost EXCEPT !.err = "ErrPrepareInput",
                                          !.breakpoint = WithFault("ErrPrepareInput",
                                                                   failExecution)],
                         1, FALSE)
       ELSE IF transferred.err # ErrNil
       THEN TransferEnds("transferESDTNFTExecute",
                         [transferred EXCEPT !.breakpoint = WithFault(transferred.err,
                                                                      failExecution)],
                         1, FALSE)
       ELSE IF execution /\ hasFunction
       THEN IF executed.err # ErrNil
            THEN TransferEnds("transferESDTNFTExecute",
                              [executed EXCEPT
                                   !.ledger = RevertToSnapshot(@, snapshotBeforeTransfer),
                                   !.breakpoint = WithFault(executed.err, failExecution)],
                              1, TRUE)
            ELSE TransferEnds("transferESDTNFTExecute", executed, 0, TRUE)
       ELSE TransferEnds("transferESDTNFTExecute", transferred, 0, FALSE)

\* The function of the same name behind v1_4_transferESDTNFTExecute: the
\* execution is host.ExecuteOnDestContext itself, and its error sets no
\* breakpoint.
v1_4_transferESDTNFTExecute(hasFunction, prepareOk, transferOk, execution, childOk, childChanged, failExecution) ==
    /\ esdtBreakpoint = BreakpointNone
    /\ Len(tokenLedger) + 2 <= MaxLedger
    /\ Len(esdtOutput) + 2 <= MaxLedger
    /\ LET snapshotBeforeTransfer == GetSnapshot(tokenLedger)
           transferred == TransferESDT(EsdtHost, transferOk)
           executed == ExecuteOnDestContextOfTransfer(transferred, childOk, childChanged) IN
       IF hasFunction /\ ~prepareOk
       THEN TransferEnds("v1_4_transferESDTNFTExecute",
                         [EsdtHost EXCEPT !.err = "ErrPrepareInput",
                                          !.breakpoint = WithFault("ErrPrepareInput",
                                                                   failExecution)],
                         1, FALSE)
       ELSE IF transferred.err # ErrNil
       THEN TransferEnds("v1_4_transferESDTNFTExecute",
                         [transferred EXCEPT !.breakpoint = WithFault(transferred.err,
                                                                      failExecution)],
                         1, FALSE)
       ELSE IF execution /\ hasFunction
       THEN IF executed.err # ErrNil
            THEN TransferEnds("v1_4_transferESDTNFTExecute",
                              [executed EXCEPT
                                   !.ledger = RevertToSnapshot(@, snapshotBeforeTransfer)],
                              1, TRUE)
            ELSE TransferEnds("v1_4_transferESDTNFTExecute", executed, 0, TRUE)
       ELSE TransferEnds("v1_4_transferESDTNFTExecute", transferred, 0, FALSE)

\* The execution of the calling contract ends: after a fault, or when it has
\* made its transfers; the next one starts on a fresh output.
EndOfTransfers ==
    /\ lastTransfer # NoTransfer
    /\ tokenLedger' = <<>>
    /\ esdtOutput' = <<>>
    /\ esdtBreakpoint' = BreakpointNone
    /\ lastTransfer' = NoTransfer
    /\ UNCHANGED notEsdt

NextEsdt ==
    \/ \E hasFunction, prepareOk, transferOk, execution, childOk, childChanged,
          completeOk, failExecution \in BOOLEAN :
          TransferESDTNFTExecuteWithTypedArgs(hasFunction, prepareOk, transferOk, execution,
                                              childOk, childChanged, completeOk,
                                              failExecution)
    \/ \E hasFunction, prepareOk, transferOk, execution, childOk, childChanged,
          failExecution \in BOOLEAN :
          v1_4_transferESDTNFTExecute(hasFunction, prepareOk, transferOk, execution,
                                      childOk, childChanged, failExecution)
    \/ EndOfTransfers

InitEsdt == InitAsync

SpecEsdt == InitEsdt /\ [][NextEsdt]_vars

(***************************************************************************)
(* Part XV: the epochs and the caches of instances.                        *)
(***************************************************************************)

\* createActivationMap(hostParameters): the enable epochs of the flags.
createActivationMap(hostParameters) ==
    {hostParameters[flag] : flag \in ActivationFlags}

\* The flags that are enabled in an epoch.
EnabledFlags(epoch) == {flag \in ActivationFlags : enableEpochs[flag] <= epoch}

\* EpochConfirmed(epoch, _): when the epoch is in host.activationEpochMap,
\* runtime.ClearWarmInstanceCache() and blockchain.ClearCompiledCodes().
EpochConfirmed(epoch) ==
    /\ epoch = confirmedEpoch + 1
    /\ epoch <= MaxEpoch
    /\ confirmedEpoch' = epoch
    /\ IF epoch \in activationEpochMap
       THEN /\ warmInstanceCache' = {}
            /\ compiledCodes' = {}
       ELSE UNCHANGED <<warmInstanceCache, compiledCodes>>
    /\ lastEpochStep' = [step |-> "EpochConfirmed", epoch |-> epoch]
    /\ UNCHANGED <<enableEpochs, activationEpochMap>>
    /\ UNCHANGED notEpoch

\* A call starts its instance (runtime.StartWasmerInstance): a warm instance is used when there
\* is one, else the code compiled earlier, else the code is compiled under
\* the flags of the epoch; what was used stays in the caches.
CallStartsInstance ==
    /\ LET fresh == EnabledFlags(confirmedEpoch)
           used == IF warmInstanceCache # {}
                   THEN CHOOSE preparedUnder \in warmInstanceCache : TRUE
                   ELSE IF compiledCodes # {}
                   THEN CHOOSE compiledUnder \in compiledCodes : TRUE
                   ELSE fresh IN
       /\ warmInstanceCache' = {used}
       /\ compiledCodes' = {used}
       /\ lastEpochStep' = [step |-> "call", epoch |-> confirmedEpoch,
                            preparedUnder |-> used, enabled |-> fresh]
    /\ UNCHANGED <<enableEpochs, activationEpochMap, confirmedEpoch>>
    /\ UNCHANGED notEpoch

NextEpoch ==
    \/ \E epoch \in 1 .. MaxEpoch : EpochConfirmed(epoch)
    \/ CallStartsInstance

\* A host built with any of the configurations of the enable epochs.
InitEpoch ==
    /\ InitHostVars
    /\ hostOf = [c \in Callers |-> "h1"]
    /\ InitExecVars
    /\ InitUpgradeVars
    /\ InitFunctionVars
    /\ InitSyncVars
    /\ InitStackVars
    /\ InitAsyncVars
    /\ InitRegisterVars
    /\ InitDeployVars
    /\ InitStateStackVars
    /\ InitReturnDataVars
    /\ InitDeleteVars
    /\ InitResetVars
    /\ InitEsdtVars
    /\ \E early, late \in 1 .. MaxEpoch : EpochVarsOfHost(early, late)
    /\ InitLockVars

SpecEpoch == InitEpoch /\ [][NextEpoch]_vars

(***************************************************************************)
(* Part XVI: the time locks of storage keys.                               *)
(***************************************************************************)

\* big.NewInt(0).SetInt64(lockTimestamp).Bytes(): the big-endian bytes of the
\* absolute value; the sign is not part of them.
BigIntBytes(lockTimestamp) == IF lockTimestamp < 0 THEN 0 - lockTimestamp ELSE lockTimestamp

\* big.NewInt(0).SetBytes(data).Int64(): the bytes as a natural number, then
\* its low bits as a signed integer.
BigIntSetBytesInt64(data) ==
    LET low == data % (2^TimestampBits) IN
    IF low >= 2^(TimestampBits - 1) THEN low - 2^TimestampBits ELSE low

LockEnds(hook, key, loaded, result) ==
    /\ lockSteps' = lockSteps + 1
    /\ lastLock' = [hook |-> hook, key |-> key, loaded |-> loaded, result |-> result]
    /\ UNCHANGED blockTimestamp
    /\ UNCHANGED notLock

\* SetStorageLockWithHost and SetStorageLockWithTypedArgs: MemLoad of the key,
\* then storage.SetProtectedStorage(timeLockKey, bigTimestamp.Bytes()); the
\* result is the storage status, -1 after an error.
SetStorageLockValue(hook, key, lockTimestamp, memLoadOk, storeOk) ==
    IF memLoadOk /\ storeOk
    THEN /\ timeLocks' = [timeLocks EXCEPT ![key] = BigIntBytes(lockTimestamp)]
         /\ lockSet' = [lockSet EXCEPT ![key] = <<lockTimestamp>>]
         /\ LockEnds(hook, key, TRUE, 0)
    ELSE /\ UNCHANGED <<timeLocks, lockSet>>
         /\ LockEnds(hook, key, memLoadOk, -1)

SetStorageLock(key, lockTimestamp, memLoadOk, storeOk) ==
    /\ lockSteps < MaxLockSteps
    /\ SetStorageLockValue("setStorageLock", key, lockTimestamp, memLoadOk, storeOk)

\* GetStorageLock: MemLoad of the key (-1 after an error), storage.GetStorage
\* of the time lock key, the bytes read as an int64.
GetStorageLockValue(key, memLoadOk) ==
    IF memLoadOk THEN BigIntSetBytesInt64(timeLocks[key]) ELSE -1

GetStorageLock(key, memLoadOk) ==
    /\ lockSteps < MaxLockSteps
    /\ UNCHANGED <<timeLocks, lockSet>>
    /\ LockEnds("getStorageLock", key, memLoadOk, GetStorageLockValue(key, memLoadOk))

\* IsStorageLocked (and v1_4_isStorageLocked, which is the same code on the
\* v1_4 hooks): -1 when the time lock read is negative, 0 when it is not
\* after the timestamp of the current block, else 1.
IsStorageLockedValue(timeLock, currentTimestamp) ==
    IF timeLock < 0 THEN -1
    ELSE IF timeLock <= currentTimestamp THEN 0
    ELSE 1

IsStorageLocked(key, memLoadOk) ==
    /\ lockSteps < MaxLockSteps
    /\ UNCHANGED <<timeLocks, lockSet>>
    /\ LockEnds("isStorageLocked", key, memLoadOk,
                IsStorageLockedValue(GetStorageLockValue(key, memLoadOk), blockTimestamp))

\* ClearStorageLock: SetStorageLock(keyOffset, keyLength, 0).
ClearStorageLock(key, memLoadOk, storeOk) ==
    /\ lockSteps < MaxLockSteps
    /\ SetStorageLockValue("clearStorageLock", key, 0, memLoadOk, storeOk)

NextLock ==
    \/ \E key \in LockKeys, lockTimestamp \in Timestamps, memLoadOk, storeOk \in BOOLEAN :
          SetStorageLock(key, lockTimestamp, memLoadOk, storeOk)
    \/ \E key \in LockKeys, memLoadOk \in BOOLEAN : GetStorageLock(key, memLoadOk)
    \/ \E key \in LockKeys, memLoadOk \in BOOLEAN : IsStorageLocked(key, memLoadOk)
    \/ \E key \in LockKeys, memLoadOk, storeOk \in BOOLEAN :
          ClearStorageLock(key, memLoadOk, storeOk)

\* An execution in a block of any timestamp.
InitLock ==
    /\ InitHostVars
    /\ hostOf = [c \in Callers |-> "h1"]
    /\ InitExecVars
    /\ InitUpgradeVars
    /\ InitFunctionVars
    /\ InitSyncVars
    /\ InitStackVars
    /\ InitAsyncVars
    /\ InitRegisterVars
    /\ InitDeployVars
    /\ InitStateStackVars
    /\ InitReturnDataVars
    /\ InitDeleteVars
    /\ InitResetVars
    /\ InitEsdtVars
    /\ InitEpochVars
    /\ \E timestamp \in {t \in Timestamps : t >= 0} : LockVarsInBlock(timestamp)

SpecLock == InitLock /\ [][NextLock]_vars

(***************************************************************************)
(* Properties of transferESDTNFTExecute (specification SpecEsdt).          *)
(***************************************************************************)

\* C37: when the execution that follows the token transfer fails, the hook
\* reports failure (1), the blockchain state is the one of the snapshot taken
\* before the transfer, and the output under construction is what it was
\* before the transfer.
C37_TransferAndCallAtomic ==
    lastTransfer.hook # "none" /\ lastTransfer.executed
        /\ lastTransfer.executeErr # ErrNil =>
        /\ lastTransfer.result = 1
        /\ tokenLedger = lastTransfer.ledgerBefore
        /\ esdtOutput = lastTransfer.outputBefore

(***************************************************************************)
(* Properties of the epochs (specification SpecEpoch).                     *)
(***************************************************************************)

\* C38: right after EpochConfirmed with an epoch at which one of the flags
\* of the host activates, the warm instance cache and the compiled codes are
\* empty; and a call never runs on an instance that was prepared under other
\* flags than the ones enabled in its epoch.
C38_ActivationEpochClearsCaches ==
    /\ lastEpochStep.step = "EpochConfirmed"
           /\ lastEpochStep.epoch \in createActivationMap(enableEpochs) =>
           warmInstanceCache = {} /\ compiledCodes = {}
    /\ lastEpochStep.step = "call" =>
           lastEpochStep.preparedUnder = lastEpochStep.enabled

(***************************************************************************)
(* Properties of the time locks (specification SpecLock).                  *)
(***************************************************************************)

\* C39: once setStorageLock(key, t) has succeeded, getStorageLock(key)
\* returns t and isStorageLocked(key) returns 1 when t is greater than the
\* timestamp of the current block and 0 otherwise; after clearStorageLock(key),
\* isStorageLocked(key) returns 0; the hooks that read are the ones whose key
\* could be loaded from memory.
C39_StorageLockRoundTrip ==
    lastLock.hook \in {"getStorageLock", "isStorageLocked"} /\ lastLock.loaded
        /\ lockSet[lastLock.key] # <<>> =>
        /\ lastLock.hook = "getStorageLock" =>
               lastLock.result = lockSet[lastLock.key][1]
        /\ lastLock.hook = "isStorageLocked" =>
               lastLock.result = IF lockSet[lastLock.key][1] > blockTimestamp THEN 1 ELSE 0

(***************************************************************************)
(* Properties of the asynchronous calls (specification SpecAsync).         *)
(***************************************************************************)

C20_CallbackDecrementsAndRemoves ==
    lastAsync.step = "callback" /\ ~lastAsync.legacy /\ lastAsync.found
      /\ lastAsync.outcome # "notComplete" =>
        /\ lastAsync.counterAfter = lastAsync.counterBefore - 1
        /\ lastAsync.counterAfter = 0 => ~persisted

\* C21: every async call that arrived from another shard and resolved, with
\* success or with failure, has led to exactly one transfer of type
\* AsynchronousCallBack to the caller, and a call that still has pending
\* children has led to none.
C21_ResolvedCallSendsOneCallback ==
    lastAsync.step = "remote" =>
        lastAsync.callbacks = (IF lastAsync.outcome = "notComplete" THEN 0 ELSE 1)

(***************************************************************************)
(* Properties of the registration hooks (specification SpecRegister).      *)
(***************************************************************************)

LegacyHooks == {"asyncCall", "upgradeContract", "deleteContract"}

\* C22: a hook that registers an async call and is given a gas limit below
\* 2 * AsyncCallStep + AsyncCallbackGasLock raises the OutOfGas breakpoint and
\* registers nothing, for every value of the gas limit.
C22_LowGasLimitRaisesOutOfGas ==
    /\ lastRegister.hook \in {"createAsyncCall", "upgradeContract", "deleteContract"}
    /\ lastRegister.gasLimit < lastRegister.minAsyncCallCost
    => /\ runtimeBreakpoint = BreakpointOutOfGas
       /\ registeredCalls = lastRegister.before

C23_FailedDeploymentCreatesNothing ==
    /\ outputCode \subseteq succeeded
    /\ lastDeploy.path \in {"direct", "indirect"} /\ lastDeploy.err # ErrNil =>
           /\ lastDeploy.address = 0
           /\ deployerNonce = lastDeploy.nonceBefore

(***************************************************************************)
(* Properties of the context state stacks (specifications SpecBigInt and   *)
(* SpecFrames).                                                            *)
(***************************************************************************)

\* C24: no managed-type handle outlives the frame that allocated it: every
\* value the active state resolves was put by the call that is running, and
\* when a nested call has returned the managed types of the parent (values
\* and stack) are what they were when the call was entered.
C24_HandlesBelongToTheirFrame ==
    /\ \A i \in 1..Len(managedTypes.values) :
           managedTypes.values[i].owner = Len(openFrames)
    /\ lastFrame.step = "return" => managedTypes = lastFrame.managedAtEntry

C26_FailedCallRolledBack ==
    lastFrame.step = "return" =>
        IF lastFrame.returnedErr
        THEN blockchain = lastFrame.blockchainAtEntry
        ELSE /\ blockchain.stateStack = lastFrame.blockchainAtEntry.stateStack
             /\ lastFrame.blockchainAtEntry.values \subseteq blockchain.values

(***************************************************************************)
(* Properties of the hooks on the return data (specification               *)
(* SpecReturnData).                                                        *)
(***************************************************************************)

\* C28: cleanReturnData leaves no return data and raises no fault, and a
\* cleanReturnData that follows a cleanReturnData leaves the return data the
\* first one left.
C28_CleanReturnDataIdempotent ==
    lastHook.hook = "cleanReturnData" =>
        /\ returnData = <<>>
        /\ hookBreakpoint = BreakpointNone
        /\ lastHook.previous = "cleanReturnData" => returnData = lastHook.before

\* cleanReturnData has run twice in a row, and both were charged.
C28_Witness ==
    /\ lastHook.hook = "cleanReturnData"
    /\ lastHook.previous = "cleanReturnData"
    /\ lastHook.before = <<>>
    /\ hookGas >= 3

(***************************************************************************)
(* Properties of the contract deletion (specification SpecDelete).         *)
(***************************************************************************)

\* C34: a deleteContract request, direct or indirect, is honoured only when
\* the target is upgradeable and the caller is its owner: a request that
\* fails this check is reported to the requester as an error and deletes
\* nothing, one that passes has the target in the deleted accounts of the
\* final output.
C34_DeleteOnlyWithUpgradePermission ==
    lastDelete.path # "none" =>
        IF UpgradePermitted(lastDelete)
        THEN lastDelete.err = ErrNil /\ lastDelete.deleted
        ELSE lastDelete.err # ErrNil /\ ~lastDelete.deleted

(***************************************************************************)
(* Properties of top-level calls in sequence (specification SpecReset).    *)
(***************************************************************************)

\* C35: every top-level call (call, create, upgrade, delete) finds the
\* contexts and their state stacks reset, and its VMOutput holds nothing
\* that an earlier call left: its return data and its logs are of this call.
C35_OutputOfThisCallOnly ==
    lastTop.kind # "none" =>
        /\ lastTop.found = CleanState
        /\ lastTop.output.returnData \subseteq {lastTop.number}
        /\ lastTop.output.logs \subseteq {lastTop.number}

====
